---- MODULE Spec2Model ----
(***************************************************************************)
(* Record Store of bibmgr (src/bibmgr/repository.py, src/bibmgr/models.py) *)
(* as a state machine: the files under <root>/bibtex, the Repository's     *)
(* file -> entries cache, its dry-run flag and ChangeSet, and the calls    *)
(* load_entries, get_entry, get_entries_by_file, add_entry, remove_entry,  *)
(* update_entry, move_entry and save_entries.  A write outside dry-run is  *)
(* split at its two file-system steps (temporary file, rename), so that    *)
(* every state a crash or an I/O error can leave behind is a state of the  *)
(* model.                                                                  *)
(*                                                                         *)
(* Index Store of bibmgr (src/bibmgr/db.py, src/bibmgr/index.py,           *)
(* src/bibmgr/scripts/search.py): the rows of the `entries` table, the     *)
(* rows of the `entries_fts` projection that the triggers maintain, and    *)
(* the calls insert_entry, insert_entries_batch, clear_all,                *)
(* rebuild_fts_from_entries, execute_sql, search_fts,                      *)
(* SearchEngine.search and build_index.  A batch insert is split at its    *)
(* executemany statements, which run in one transaction that only the      *)
(* final commit makes visible.                                             *)
(***************************************************************************)
EXTENDS Integers, Sequences, FiniteSets, TLC

\* ------------------------------------------------------------------ bounds
MaxOps == 2        \* loads, lookups and mutations in one behaviour
MaxFaults == 1     \* injected write failures in one behaviour
MaxIndexOps == 3   \* calls made on the Index Store in one behaviour
ChunkSize == 2     \* entries per batch where the code says 1000
MaxWords == 2      \* words in a user query
MaxCalls == 1      \* calls of the functions of bibmgr.operations

\* ------------------------------------------------------- the small universe
Keys == {"k1", "k2"}
Files == {"f1", "f2"}                 \* .bib files under <root>/bibtex
FieldNames == {"title"}
Values == {"a", "b"}
None == "None"                        \* Python's None as a field value
NoFile == "test.bib"                  \* source_file of an entry built by a caller

\* directory that holds a file (bib_file.parent)
Parent(f) == IF f = "f1" THEN "by-type" ELSE "extra"

\* entry type the caller gives a new entry with this key
TypeOf(k) == IF k = "k1" THEN "article" ELSE "book"

\* dict(fields) without one field / with one field set
remove_field(fields, field) ==
    [x \in DOMAIN fields \ {field} |-> fields[x]]

update_field(fields, field, value) ==
    [x \in DOMAIN fields \cup {field} |-> IF x = field THEN value ELSE fields[x]]

BibEntry(key, entry_type, fields, source_file) ==
    [key |-> key, entry_type |-> entry_type, fields |-> fields,
     source_file |-> source_file]

\* BibEntry.copy
copy(e) == BibEntry(e.key, e.entry_type, e.fields, e.source_file)

\* entries a caller passes to add_entry: a title, or a title that is None
NewEntries ==
    {BibEntry(k, TypeOf(k), [title |-> v], NoFile) : k \in Keys, v \in {"b", None}}

\* `updates` arguments of update_entry: one field set to a new value or to None
Updates == {[field |-> f, value |-> v] : f \in FieldNames, v \in {"b", None}}

\* `entries` arguments of save_entries: lists of records with distinct keys; a
\* record can carry the cached title or another one, and the cached title
\* under another entry type
SaveRecord(k, v) == BibEntry(k, TypeOf(k), [title |-> v], NoFile)

SaveLists ==
    { <<>>,
      <<SaveRecord("k1", "a")>>,
      <<SaveRecord("k1", "b")>>,
      <<BibEntry("k1", "book", [title |-> "a"], NoFile)>>,
      <<SaveRecord("k2", "b")>>,
      <<SaveRecord("k2", "a"), SaveRecord("k1", "a")>>,
      <<SaveRecord("k2", "b"), SaveRecord("k1", "b")>> }

VARIABLES
    dirs,            \* directories that exist under <root>/bibtex
    files,           \* .bib files that exist
    disk,            \* file -> the blocks written in it (ID, ENTRYTYPE, fields)
    unreadable,      \* files whose open/read/parse raises
    rglob_order,     \* order in which rglob("*.bib") yields the files
    leftover,        \* temporary files left behind by failed writes
    entries_cache,   \* Repository._entries_cache, in dict insertion order
    dry_run,         \* Repository._dry_run
    changeset,       \* Repository._changeset: <<>> is None, <<cs>> a ChangeSet
    call,            \* the save_entries call in progress, if any
    last,            \* the last call made and how it ended
    ops,             \* number of calls made
    faults,          \* number of injected write failures
    save,            \* the save_entries write made by the last call, if any
    history,         \* written: key -> record last written by a successful
                     \* mutation; dry_used: was dry-run ever enabled
    snap,            \* what disk, load() and get() showed just before enable
    index,           \* the committed database: tbl (rows of `entries`, in id
                     \* order), fts (rows of `entries_fts`, in rowid order)
    icall,           \* the insert_entries_batch / build_index call in progress
    ilast,           \* the last Index Store call made and how it ended
    iops,            \* number of Index Store calls made
    reader,          \* a get_statistics call on a connection of its own
    rlast,           \* what the last call on that connection observed
    input_query,     \* the query the user typed, as its characters
    builder,         \* warnings of a QueryBuilder that lives across calls
    qlast,           \* the last translation: query, result and warnings
    wrapper,         \* the call of a function of bibmgr.operations: its
                     \* arguments, its position, what it has called so far
    pdfs             \* the PDF files that exist

ivars == <<index, icall, ilast, iops>>

\* the variables of the callers around the Repository and the Index Store
evars == <<reader, rlast, input_query, builder, qlast, wrapper, pdfs>>

vars == <<dirs, files, disk, unreadable, rglob_order, leftover, entries_cache,
          dry_run, changeset, call, last, ops, faults, save, history, snap,
          index, icall, ilast, iops, reader, rlast, input_query, builder,
          qlast, wrapper, pdfs>>

\* ---------------------------------------------------------------- helpers
Range(s) == {s[i] : i \in 1..Len(s)}

Min(S) == CHOOSE x \in S : \A y \in S : x <= y

RECURSIVE Concat(_)
Concat(ss) == IF ss = <<>> THEN <<>> ELSE Head(ss) \o Concat(Tail(ss))

KeysOf(entries) == {entries[i].key : i \in 1..Len(entries)}

\* next(e for e in entries if e.key == key), as a list of zero or one entry
FirstWithKey(entries, key) ==
    LET hits == {i \in 1..Len(entries) : entries[i].key = key}
    IN IF hits = {} THEN <<>> ELSE <<entries[Min(hits)]>>

\* [e for e in entries if e.key != key]
WithoutKey(entries, key) ==
    LET Keep(e) == e.key # key IN SelectSeq(entries, Keep)

\* ------------------------------------------------------- files on the disk
\* what BibTexWriter puts in the file: no source_file, no None-valued field
Serialise(entries) ==
    [i \in 1..Len(entries) |->
        [ID |-> entries[i].key,
         ENTRYTYPE |-> entries[i].entry_type,
         fields |-> [x \in {y \in DOMAIN entries[i].fields :
                                entries[i].fields[y] # None}
                       |-> entries[i].fields[x]]]]

\* load_file on a file that can be read
load_file(bib_file) ==
    IF bib_file \notin files THEN <<>>
    ELSE [i \in 1..Len(disk[bib_file]) |->
            BibEntry(disk[bib_file][i].ID, disk[bib_file][i].ENTRYTYPE,
                     disk[bib_file][i].fields, bib_file)]

\* does load_file raise (open or bibtexparser.load fails)?
load_file_raises(bib_file) == bib_file \in files /\ bib_file \in unreadable

\* self.bibtex_path.rglob("*.bib")
rglob ==
    LET Exists(f) == f \in files IN SelectSeq(rglob_order, Exists)

\* ------------------------------------------------- the cache (a Python dict)
CacheHas(c, f) == \E i \in 1..Len(c) : c[i].file = f

\* self._entries_cache.get(f, [])
CacheGet(c, f) ==
    IF CacheHas(c, f)
    THEN c[CHOOSE i \in 1..Len(c) : c[i].file = f].entries
    ELSE <<>>

\* self._entries_cache[f] = entries
CacheSet(c, f, entries) ==
    IF CacheHas(c, f)
    THEN [i \in 1..Len(c) |-> IF c[i].file = f
                                THEN [file |-> f, entries |-> entries]
                                ELSE c[i]]
    ELSE Append(c, [file |-> f, entries |-> entries])

\* the flattened cache: all_entries.extend(entries) over the dict's values
Flatten(c) == Concat([i \in 1..Len(c) |-> c[i].entries])

\* load_entries on cache c: the cache it leaves, the list it returns, whether
\* it raised, and whether it scanned the files (building new entry objects)
load_entries(c, force_reload) ==
    IF ~force_reload /\ Len(c) > 0
    THEN [cache |-> c, entries |-> Flatten(c), raised |-> FALSE, scanned |-> FALSE]
    ELSE LET scan == rglob
             bad == {i \in 1..Len(scan) : load_file_raises(scan[i])}
             n == IF bad = {} THEN Len(scan) ELSE Min(bad) - 1
             c2 == [i \in 1..n |-> [file |-> scan[i], entries |-> load_file(scan[i])]]
         IN [cache |-> c2, entries |-> Flatten(c2), raised |-> bad # {},
             scanned |-> TRUE]

\* get_entry: the entry as a list of zero or one, and the cached file list
\* that holds the object found
get_entry(c, key) ==
    LET r == load_entries(c, FALSE)
        hits == {i \in 1..Len(r.cache) : key \in KeysOf(r.cache[i].entries)}
    IN [cache |-> r.cache, raised |-> r.raised, scanned |-> r.scanned,
        found |-> IF r.raised THEN <<>> ELSE FirstWithKey(r.entries, key),
        home |-> IF r.raised \/ hits = {} THEN NoFile ELSE r.cache[Min(hits)].file]

\* get_entries_by_file
get_entries_by_file(c, bib_file) ==
    IF CacheHas(c, bib_file)
    THEN [cache |-> c, entries |-> CacheGet(c, bib_file), raised |-> FALSE]
    ELSE IF load_file_raises(bib_file)
         THEN [cache |-> c, entries |-> <<>>, raised |-> TRUE]
         ELSE [cache |-> CacheSet(c, bib_file, load_file(bib_file)),
               entries |-> load_file(bib_file), raised |-> FALSE]

\* entry.source_file = f on the object that lives in the cached list of `home`
SetSourceFile(c, home, key, f) ==
    [i \in 1..Len(c) |->
        IF c[i].file # home THEN c[i]
        ELSE [c[i] EXCEPT !.entries =
                [j \in 1..Len(c[i].entries) |->
                    IF c[i].entries[j].key = key
                    THEN [c[i].entries[j] EXCEPT !.source_file = f]
                    ELSE c[i].entries[j]]]]

\* ------------------------------------------------------------- the ChangeSet
\* ChangeSet.__init__.  A removed entry and the old half of an update pair are
\* the cached objects themselves: `home` names the cached list they live in
\* (NoFile once a reload has replaced the cached objects).
ChangeSet == [added |-> <<>>, removed |-> <<>>, updated |-> <<>>,
              file_operations |-> <<>>]

\* Track as it would be if the dry-run branch recorded an update for every key
\* the cached list and the new list share, without comparing the field maps
Track_NoFieldCompare(cs, c, entries, bib_file) ==
    LET existing == CacheGet(c, bib_file)
        existing_keys == KeysOf(existing)
        new_keys == KeysOf(entries)
        IsNew(e) == e.key \notin existing_keys
        IsGone(e) == e.key \notin new_keys
        IsChanged(e) == e.key \in existing_keys
        gone == SelectSeq(existing, IsGone)
        changed == SelectSeq(entries, IsChanged)
    IN [cs EXCEPT
          !.added = @ \o SelectSeq(entries, IsNew),
          !.removed = @ \o [i \in 1..Len(gone) |->
                              [entry |-> gone[i], home |-> bib_file]],
          !.updated = @ \o [i \in 1..Len(changed) |->
                              [old |-> FirstWithKey(existing, changed[i].key)[1],
                               new |-> changed[i], home |-> bib_file]]]

\* save_entries, dry-run branch: what it appends to the ChangeSet cs
Track(cs, c, entries, bib_file) ==
    LET existing == CacheGet(c, bib_file)
        existing_keys == KeysOf(existing)
        new_keys == KeysOf(entries)
        IsNew(e) == e.key \notin existing_keys
        IsGone(e) == e.key \notin new_keys
        IsChanged(e) == /\ e.key \in existing_keys
                        /\ FirstWithKey(existing, e.key)[1].fields # e.fields
        gone == SelectSeq(existing, IsGone)
        changed == SelectSeq(entries, IsChanged)
    IN [cs EXCEPT
          !.added = @ \o SelectSeq(entries, IsNew),
          !.removed = @ \o [i \in 1..Len(gone) |->
                              [entry |-> gone[i], home |-> bib_file]],
          !.updated = @ \o [i \in 1..Len(changed) |->
                              [old |-> FirstWithKey(existing, changed[i].key)[1],
                               new |-> changed[i], home |-> bib_file]]]

\* the objects a ChangeSet shares with the cache get a new source_file
Retarget(cs, home, key, f) ==
    [cs EXCEPT
       !.removed = [i \in 1..Len(@) |->
            IF @[i].home = home /\ @[i].entry.key = key
            THEN [@[i] EXCEPT !.entry.source_file = f] ELSE @[i]],
       !.updated = [i \in 1..Len(@) |->
            IF @[i].home = home /\ @[i].old.key = key
            THEN [@[i] EXCEPT !.old.source_file = f] ELSE @[i]]]

\* a scan of the files replaces the cached objects: nothing is shared any more
Detach(cs) ==
    [cs EXCEPT
       !.removed = [i \in 1..Len(@) |-> [@[i] EXCEPT !.home = NoFile]],
       !.updated = [i \in 1..Len(@) |-> [@[i] EXCEPT !.home = NoFile]]]

ChangesetAfterScan(scanned) ==
    IF scanned /\ changeset # <<>> THEN <<Detach(changeset[1])>> ELSE changeset

\* ------------------------------------------------- what a caller can observe
\* a file as it is on the disk
FileView(f) == [exists |-> f \in files, content |-> disk[f]]

\* the cache entry of a file
CacheView(f) == [cached |-> CacheHas(entries_cache, f),
                 entries |-> CacheGet(entries_cache, f)]

\* what load_entries() / load_entries(force_reload=True) would return now
LoadView ==
    LET r == load_entries(entries_cache, FALSE)
    IN [entries |-> IF r.raised THEN <<>> ELSE r.entries, raised |-> r.raised]

ReloadView ==
    LET r == load_entries(entries_cache, TRUE)
    IN [entries |-> IF r.raised THEN <<>> ELSE r.entries, raised |-> r.raised]

\* what get_entry(key) would return now
GetView(key) ==
    LET g == get_entry(entries_cache, key)
    IN [found |-> g.found, raised |-> g.raised]

\* keys written in any file under the managed root
KeysIn(f) == {disk[f][i].ID : i \in 1..Len(disk[f])}

DiskKeys == UNION {KeysIn(f) : f \in files}

\* ========================================== the Index Store (src/bibmgr/db.py)
Max(S) == CHOOSE x \in S : \A y \in S : x >= y

Abs(x) == IF x < 0 THEN -x ELSE x

Reverse(s) == [i \in 1..Len(s) |-> s[Len(s) + 1 - i]]

\* records a caller hands to insert_entry and insert_entries_batch: one key
\* with two different titles, a title that is None, and a second key
IndexRecords ==
    { BibEntry("k1", "article", [title |-> "a a"], "f1"),
      BibEntry("k1", "article", [title |-> None], "f1"),
      BibEntry("k2", "book", [title |-> "a"], "f1") }

\* the database after BibliographyDB.__init__ on a new path
EmptyIndex == [tbl |-> <<>>, fts |-> <<>>]

\* COALESCE(json_extract(data, '$.<field>'), ''): data is the JSON object
\* json.dumps made of entry.fields, in which None is null
json_extract(data, field) ==
    IF field \in DOMAIN data /\ data[field] # None THEN data[field] ELSE ""

\* the projection row the triggers and the rebuild compute from a primary row
Project(row) == [key |-> row.key, title |-> json_extract(row.data, "title")]

\* INSERT OR REPLACE INTO entries with the entries_ai trigger.  REPLACE
\* deletes the row that holds the key; SQLite fires the delete trigger for
\* it only under PRAGMA recursive_triggers, which _get_connection leaves off.
\* AUTOINCREMENT gives the new row an id above every id used before, so it
\* is the last row in id order
insert_or_replace(ix, e) ==
    LET row == [key |-> e.key, entry_type |-> e.entry_type,
                source_file |-> e.source_file, data |-> e.fields]
        NotKey(r) == r.key # e.key
    IN [tbl |-> Append(SelectSeq(ix.tbl, NotKey), row),
        fts |-> Append(ix.fts, Project(row))]

\* conn.executemany over the values of one batch
RECURSIVE executemany(_, _)
executemany(ix, values) ==
    IF values = <<>> THEN ix
    ELSE executemany(insert_or_replace(ix, Head(values)), Tail(values))

\* DELETE FROM entries with the entries_ad trigger, which deletes the
\* projection rows of each deleted row's key
clear_all(ix) ==
    LET gone == {ix.tbl[i].key : i \in 1..Len(ix.tbl)}
        Keep(f) == f.key \notin gone
    IN [tbl |-> <<>>, fts |-> SelectSeq(ix.fts, Keep)]

\* rebuild_fts_from_entries as it would be without its DELETE FROM entries_fts
rebuild_fts_from_entries_NoDelete(ix) ==
    [tbl |-> ix.tbl,
     fts |-> ix.fts \o [i \in 1..Len(ix.tbl) |-> Project(ix.tbl[i])]]

\* DELETE FROM entries_fts, then INSERT INTO entries_fts SELECT ... FROM entries
rebuild_fts_from_entries(ix) ==
    [tbl |-> ix.tbl,
     fts |-> [i \in 1..Len(ix.tbl) |-> Project(ix.tbl[i])]]

\* the FTS5 'rebuild' and 'optimize' commands and VACUUM rewrite the
\* full-text structures and the file; the rows of both tables stay
optimize(ix) == [tbl |-> ix.tbl, fts |-> ix.fts]

get_statistics(ix) ==
    [total_entries |-> Len(ix.tbl), fts_entries |-> Len(ix.fts)]

\* insert_entry called for each entry of a list, in list order
RECURSIVE InsertOneByOne(_, _)
InsertOneByOne(ix, entries) ==
    IF entries = <<>> THEN ix
    ELSE InsertOneByOne(insert_or_replace(ix, Head(entries)), Tail(entries))

\* IndexBuilder.check_fts_consistency
check_fts_consistency(ix) ==
    LET stats == get_statistics(ix)
    IN stats.total_entries = stats.fts_entries

\* statements of execute_sql that the tests use to damage the index: delete a
\* primary row with the entries_ad trigger dropped, delete projection rows
execute_sql(ix, stmt) ==
    LET NotKey(r) == r.key # stmt.key
    IN IF stmt.table = "entries"
       THEN [ix EXCEPT !.tbl = SelectSeq(ix.tbl, NotKey)]
       ELSE [ix EXCEPT !.fts = SelectSeq(ix.fts, NotKey)]

\* DELETE FROM <table> WHERE key = <key>
Statements ==
    {[table |-> t, key |-> k] : t \in {"entries", "entries_fts"}, k \in Keys}

\* ------------------------------------------------------------------ search
\* query strings search_fts is called with
BackendQueries == {"", " ", "a", "{title}:a", "a AND"}

\* not query or not query.strip()
IsBlank(query) == query \in {"", " "}

\* FTS5 raises a syntax error for the query when the statement is first stepped
fts5_rejects(query) == query \in {"a AND", "AND"}

\* the term an accepted query looks for and the columns it looks in
Term(query) == IF query = "{title}:a" THEN "a" ELSE query

Columns(query) == IF query = "{title}:a" THEN {"title"} ELSE {"key", "title"}

\* unicode61 tokens of a column value
Tokens(text) ==
    CASE text = "a a" -> <<"a", "a">>
      [] text = "" -> <<>>
      [] OTHER -> <<text>>

Occurrences(text, term) ==
    Cardinality({i \in 1..Len(Tokens(text)) : Tokens(text)[i] = term})

Hits(f, query) ==
    (IF "key" \in Columns(query) THEN Occurrences(f.key, Term(query)) ELSE 0)
        + Occurrences(f.title, Term(query))

\* entries_fts MATCH ?
Match(f, query) == Hits(f, query) > 0

\* bm25(entries_fts): negative, and more negative for a better match
bm25(f, query) == 0 - Hits(f, query)

\* FROM entries e JOIN entries_fts ON e.key = entries_fts.key WHERE ... MATCH ?
JoinMatch(ix, query) ==
    Concat([i \in 1..Len(ix.tbl) |->
        LET Hit(f) == f.key = ix.tbl[i].key /\ Match(f, query)
            hits == SelectSeq(ix.fts, Hit)
        IN [j \in 1..Len(hits) |->
                [row |-> ix.tbl[i], rank |-> bm25(hits[j], query)]]])

\* ORDER BY rank DESC
RECURSIVE OrderByRankDesc(_)
OrderByRankDesc(rows) ==
    IF rows = <<>> THEN <<>>
    ELSE LET top == Max({rows[i].rank : i \in 1..Len(rows)})
             at == Min({i \in 1..Len(rows) : rows[i].rank = top})
         IN <<rows[at]>>
              \o OrderByRankDesc(SubSeq(rows, 1, at - 1)
                                   \o SubSeq(rows, at + 1, Len(rows)))

\* RecentFirst as it would be with ORDER BY e.id
RecentFirst_Ascending(ix) ==
    [i \in 1..Len(ix.tbl) |-> [row |-> ix.tbl[i], rank |-> 50]]

\* ORDER BY e.id DESC with the constant rank of the empty-query branch
RecentFirst(ix) ==
    [i \in 1..Len(ix.tbl) |-> [row |-> Reverse(ix.tbl)[i], rank |-> 50]]

\* LIMIT ? OFFSET ?
LimitOffset(rows, limit, offset) ==
    SubSeq(rows, offset + 1, Min({Len(rows), offset + limit}))

\* _row_to_entry
row_to_entry(row) == BibEntry(row.key, row.entry_type, row.data, row.source_file)

\* rank = max(0, min(100, 100 - abs(row["rank"]) * 10))
Score(rank) == Max({0, Min({100, 100 - Abs(rank) * 10})})

\* search_fts as it would be without the try/except around the ranked query
search_fts_NoExcept(ix, query, limit, offset) ==
    LET cursor == IF IsBlank(query)
                  THEN LimitOffset(RecentFirst(ix), limit, offset)
                  ELSE IF fts5_rejects(query)
                       THEN <<>>
                       ELSE LimitOffset(OrderByRankDesc(JoinMatch(ix, query)),
                                        limit, offset)
    IN [raised |-> ~IsBlank(query) /\ fts5_rejects(query),
        results |-> [i \in 1..Len(cursor) |->
                        [entry |-> row_to_entry(cursor[i].row),
                         score |-> Score(cursor[i].rank),
                         rank |-> cursor[i].rank]]]

\* search_fts: whether it raises, and the (entry, score) pairs it returns,
\* each with the rank column of its row; the except branch selects WHERE 0 = 1
search_fts(ix, query, limit, offset) ==
    LET cursor == IF IsBlank(query)
                  THEN LimitOffset(RecentFirst(ix), limit, offset)
                  ELSE IF fts5_rejects(query)
                       THEN <<>>
                       ELSE LimitOffset(OrderByRankDesc(JoinMatch(ix, query)),
                                        limit, offset)
    IN [raised |-> FALSE,
        results |-> [i \in 1..Len(cursor) |->
                        [entry |-> row_to_entry(cursor[i].row),
                         score |-> Score(cursor[i].rank),
                         rank |-> cursor[i].rank]]]

\* limit and offset arguments of the searches
Limits == {1, 2}

Offsets == {0, 1}

\* lists handed to insert_entries_batch: none, one, two keys, one key twice,
\* and a key again after another key; and the batch sizes
BatchLists ==
    LET k1 == BibEntry("k1", "article", [title |-> "a a"], "f1")
        k1n == BibEntry("k1", "article", [title |-> None], "f1")
        k2 == BibEntry("k2", "book", [title |-> "a"], "f1")
    IN {<<>>, <<k2>>, <<k1, k2>>, <<k1, k1n>>, <<k1, k2, k1n>>}

BatchSizes == {1, 2, 3}

\* queries SearchEngine.search is called with
UserQueries == {"a", "title:a", "foo:a", "foo:AND"}

\* SearchEngine._prepare_fts_query: field:value becomes {field}:value for a
\* column of entries_fts and value alone for any other field
prepare_fts_query(query) ==
    CASE query = "title:a" -> "{title}:a"
      [] query = "foo:a" -> "a"
      [] query = "foo:AND" -> "AND"
      [] OTHER -> query

\* range(0, len(entries), n) with entries[i : i + n]
RECURSIVE Chunks(_, _)
Chunks(entries, n) ==
    IF entries = <<>> THEN <<>>
    ELSE LET m == Min({n, Len(entries)})
         IN <<SubSeq(entries, 1, m)>>
              \o Chunks(SubSeq(entries, m + 1, Len(entries)), n)

\* the records inserted so far, each key once with the record inserted for
\* it last, from the least to the most recently inserted
RECURSIVE Touch(_, _)
Touch(inserted, entries) ==
    IF entries = <<>> THEN inserted
    ELSE LET NotKey(e) == e.key # Head(entries).key
         IN Touch(Append(SelectSeq(inserted, NotKey), Head(entries)),
                  Tail(entries))

Untouch(inserted, key) ==
    LET NotKey(e) == e.key # key IN SelectSeq(inserted, NotKey)

\* no insert_entries_batch or build_index call is in progress
IIdle == [pc |-> "idle", op |-> "none", entries |-> <<>>, rest |-> <<>>,
          batch_size |-> 0, work |-> EmptyIndex, written |-> 0, chunks |-> <<>>]

INone == [op |-> "init", result |-> "ok", ret |-> <<>>, query |-> "",
          limit |-> 0, offset |-> 0, entries |-> <<>>, batch_size |-> 0,
          failed_batch |-> 0, from |-> EmptyIndex, mode |-> "plain",
          inserted |-> <<>>, file |-> NoFile]

\* ================================== the Query Translator (src/bibmgr/query.py)
\* a query is the sequence of its characters
LowerCase ==
    <<"a", "b", "c", "d", "e", "f", "g", "h", "i", "j", "k", "l", "m",
      "n", "o", "p", "q", "r", "s", "t", "u", "v", "w", "x", "y", "z">>

UpperCase ==
    <<"A", "B", "C", "D", "E", "F", "G", "H", "I", "J", "K", "L", "M",
      "N", "O", "P", "Q", "R", "S", "T", "U", "V", "W", "X", "Y", "Z">>

LowerLetters == {LowerCase[i] : i \in 1..26}

UpperLetters == {UpperCase[i] : i \in 1..26}

\* str.lower and str.upper of one character
lower(c) ==
    IF c \in UpperLetters
    THEN LowerCase[CHOOSE i \in 1..26 : UpperCase[i] = c] ELSE c

upper(c) ==
    IF c \in LowerLetters
    THEN UpperCase[CHOOSE i \in 1..26 : LowerCase[i] = c] ELSE c

Lowered(s) == [i \in 1..Len(s) |-> lower(s[i])]

\* the classes \w and \s of the re module
IsWord(c) == c \in LowerLetters \/ c \in UpperLetters

IsSpace(c) == c = " "

\* FTS_COLUMNS and FTS_OPERATORS
FTS_COLUMNS ==
    { <<"k", "e", "y">>, <<"t", "i", "t", "l", "e">>,
      <<"a", "u", "t", "h", "o", "r">>,
      <<"a", "b", "s", "t", "r", "a", "c", "t">>,
      <<"k", "e", "y", "w", "o", "r", "d", "s">>,
      <<"j", "o", "u", "r", "n", "a", "l">>, <<"y", "e", "a", "r">> }

FTS_OPERATORS ==
    { <<"A", "N", "D">>, <<"O", "R">>, <<"N", "O", "T">>,
      <<"N", "E", "A", "R">> }

\* sub in s
Contains(s, sub) ==
    \E i \in 1..(Len(s) - Len(sub) + 1) : SubSeq(s, i, i + Len(sub) - 1) = sub

\* str.strip
strip(s) ==
    LET inside == {i \in 1..Len(s) : ~IsSpace(s[i])}
    IN IF inside = {} THEN <<>> ELSE SubSeq(s, Min(inside), Max(inside))

\* re.sub(r"\s+", " ", s): the first space of each run of spaces stays
CollapseSpaces(s) ==
    LET Keep(i) == ~IsSpace(s[i]) \/ i = 1 \/ ~IsSpace(s[i - 1])
        kept == SelectSeq([i \in 1..Len(s) |-> i], Keep)
    IN [n \in 1..Len(kept) |-> s[kept[n]]]

\* the maximal run of \w characters around position i of s
WordStart(s, i) == Min({j \in 1..i : \A k \in j..i : IsWord(s[k])})

WordEnd(s, i) == Max({j \in i..Len(s) : \A k \in i..j : IsWord(s[k])})

\* re.sub(r"\bop\b", OP, s, flags=re.IGNORECASE) for each operator: a
\* whole word that is an operator in any case is written in upper case
UpperOperators(s) ==
    [i \in 1..Len(s) |->
        IF IsWord(s[i])
              /\ [k \in 1..(WordEnd(s, i) - WordStart(s, i) + 1) |->
                     upper(s[WordStart(s, i) + k - 1])] \in FTS_OPERATORS
        THEN upper(s[i]) ELSE s[i]]

\* QueryBuilder._normalize_query
normalize_query(query) == UpperOperators(CollapseSpaces(strip(query)))

\* QueryBuilder._is_field_query: ":" in query and re.search(r"\w+:", query)
is_field_query(query) ==
    /\ \E i \in 1..Len(query) : query[i] = ":"
    /\ \E i \in 2..Len(query) : query[i] = ":" /\ IsWord(query[i - 1])

\* QueryBuilder._is_boolean_query: any(op in query for op in FTS_OPERATORS)
is_boolean_query(query) == \E op \in FTS_OPERATORS : Contains(query, op)

\* QueryBuilder._is_phrase_query
is_phrase_query(query) ==
    /\ Len(query) > 2
    /\ query[1] = "\""
    /\ query[Len(query)] = "\""

\* QueryBuilder._has_wildcards
has_wildcards(query) ==
    \E i \in 1..Len(query) : query[i] \in {"*", "?"}

\* the warning texts
UnknownField(field) == [warning |-> "Unknown field", field |-> field]

TrailingOnly(part) ==
    [warning |-> "FTS5 only supports trailing wildcards", part |-> part]

\* re.sub(pattern, replace_field, s) from position i on, for the patterns
\* (\w+):([^\s]+|".+?") of the QueryBuilder and (\w+):([^\s:]+) of the
\* SearchEngine (value_stops_at_colon).  The first alternative of the
\* QueryBuilder's value group matches whenever a character that is not a
\* space follows the colon, so the second never does.  A match at i takes
\* the word from i, the colon and the longest value; a field of FTS_COLUMNS
\* gives {field}:value, any other field the value alone and (in the
\* QueryBuilder) a warning
RECURSIVE sub_fields(_, _, _)
sub_fields(s, i, value_stops_at_colon) ==
    IF i > Len(s) THEN [text |-> <<>>, warnings |-> <<>>]
    ELSE LET InValue(c) ==
                 ~IsSpace(c) /\ (value_stops_at_colon => c # ":")
             e == IF IsWord(s[i]) THEN WordEnd(s, i) ELSE i - 1
             v == Max({e + 1} \cup
                      {j \in (e + 2)..Len(s) :
                          \A k \in (e + 2)..j : InValue(s[k])})
         IN IF IsWord(s[i]) /\ e + 1 <= Len(s) /\ s[e + 1] = ":" /\ v >= e + 2
            THEN LET field == Lowered(SubSeq(s, i, e))
                     value == SubSeq(s, e + 2, v)
                     rest == sub_fields(s, v + 1, value_stops_at_colon)
                 IN IF field \in FTS_COLUMNS
                    THEN [text |-> <<"{">> \o field \o <<"}", ":">> \o value
                                     \o rest.text,
                          warnings |-> rest.warnings]
                    ELSE [text |-> value \o rest.text,
                          warnings |-> <<UnknownField(field)>>
                                          \o rest.warnings]
            ELSE LET rest == sub_fields(s, i + 1, value_stops_at_colon)
                 IN [text |-> <<s[i]>> \o rest.text,
                     warnings |-> rest.warnings]

\* QueryBuilder._build_field_query
build_field_query(query) == sub_fields(query, 1, FALSE)

\* QueryBuilder._build_boolean_query
build_boolean_query(query) ==
    IF is_field_query(query) THEN build_field_query(query)
    ELSE [text |-> query, warnings |-> <<>>]

\* str.split(): the words between the spaces
RECURSIVE split(_)
split(s) ==
    LET t == strip(s)
        spaces == {i \in 1..Len(t) : IsSpace(t[i])}
    IN IF t = <<>> THEN <<>>
       ELSE IF spaces = {} THEN <<t>>
       ELSE <<SubSeq(t, 1, Min(spaces) - 1)>>
                \o split(SubSeq(t, Min(spaces) + 1, Len(t)))

\* QueryBuilder._build_wildcard_query
build_wildcard_query(query) ==
    LET q == [i \in 1..Len(query) |-> IF query[i] = "?" THEN "*" ELSE query[i]]
        Bad(part) == Contains(part, <<"*">>) /\ part[Len(part)] # "*"
        bad == SelectSeq(split(q), Bad)
    IN [text |-> q,
        warnings |-> IF Contains(SubSeq(q, 1, Len(q) - 1), <<"*">>)
                     THEN [i \in 1..Len(bad) |-> TrailingOnly(bad[i])]
                     ELSE <<>>]

\* build_query after self.warnings.clear(): the blank query gives "", any
\* other one is normalised and goes to the first builder whose test it passes
dispatch(user_query) ==
    IF strip(user_query) = <<>> THEN [text |-> <<>>, warnings |-> <<>>]
    ELSE LET query == normalize_query(user_query)
         IN IF is_field_query(query) THEN build_field_query(query)
            ELSE IF is_boolean_query(query) THEN build_boolean_query(query)
            ELSE IF is_phrase_query(query)
                 THEN [text |-> query, warnings |-> <<>>]
            ELSE IF has_wildcards(query) THEN build_wildcard_query(query)
            ELSE [text |-> query, warnings |-> <<>>]

\* build_query as it would be without self.warnings.clear()
build_query_NoClear(warnings, user_query) ==
    LET r == dispatch(user_query)
    IN [text |-> r.text, warnings |-> warnings \o r.warnings]

\* QueryBuilder.build_query on a builder that holds `warnings`: the list is
\* cleared, then the builders append to it
build_query(warnings, user_query) ==
    LET cleared == <<>>
        r == dispatch(user_query)
    IN [text |-> r.text, warnings |-> cleared \o r.warnings]

\* parse_query: a new QueryBuilder, build_query and get_warnings
parse_query(query) == build_query(<<>>, query)

\* SearchEngine._prepare_fts_query on the characters of the query
prepare_fts_chars(query) == sub_fields(query, 1, TRUE).text

\* words a user query is made of: a plain word, a qualifier with a field of
\* FTS_COLUMNS in lower and in upper case, a qualifier with another field,
\* an operator in lower case, a word that has the letters of an operator
\* and a wildcard, wildcards at the end and inside a word, a phrase, a
\* colon without a value and a value that starts with a colon
Words ==
    { <<"a">>,
      <<"k", "e", "y", ":", "a">>,
      <<"K", "E", "Y", ":", "a">>,
      <<"f", ":", "a">>,
      <<"o", "r">>,
      <<"O", "R", "a", "?">>,
      <<"a", "?">>,
      <<"a", "*", "b">>,
      <<"\"", "a", "\"">>,
      <<"f", ":">>,
      <<"f", ":", ":", "a">> }

\* queries of n words with one space between them
RECURSIVE QueriesOf(_)
QueriesOf(n) ==
    IF n = 1 THEN Words
    ELSE {q \o <<" ">> \o w : q \in QueriesOf(n - 1), w \in Words}

\* user queries: the empty and the blank one, up to MaxWords words, a word
\* between spaces and a word after two spaces
Queries ==
    {<<>>, <<" ">>} \cup UNION {QueriesOf(n) : n \in 1..MaxWords}
        \cup {<<" ">> \o w \o <<" ">> : w \in Words}
        \cup {<<"a", " ", " ">> \o w : w \in Words}

\* no translation has been made
QNone == [op |-> "init", query |-> <<>>, text |-> <<>>, warnings |-> <<>>,
          before |-> <<>>]

\* no call is in progress on the reader's connection
\* no function of bibmgr.operations has been called
WIdle == [pc |-> "idle", name |-> "none", dry_run |-> FALSE, args |-> <<>>,
          mark |-> 0, todo |-> <<>>, entry |-> <<>>, enables |-> 0,
          disables |-> 0, exit |-> "none", calls |-> 0,
          before |-> [dry_run |-> FALSE, changeset |-> <<>>, files |-> {},
                      disk |-> [f \in Files |-> <<>>]]]

RIdle == [pc |-> "idle", total_entries |-> 0, start |-> EmptyIndex,
          writing |-> FALSE, iops |-> 0]

RNone == [op |-> "init", total_entries |-> 0, fts_entries |-> 0,
          query |-> "", results |-> <<>>, start |-> EmptyIndex,
          end |-> EmptyIndex, one_batch |-> FALSE]

\* ----------------------------------------------------------- initial states
\* stores the Repository is constructed over: pairwise distinct keys
Block(k, v) == [ID |-> k, ENTRYTYPE |-> TypeOf(k), fields |-> [title |-> v]]

InitStores ==
    { [dirs |-> {"by-type"}, files |-> {},
       disk |-> [f \in Files |-> <<>>]],
      [dirs |-> {"by-type"}, files |-> {"f1"},
       disk |-> [f \in Files |-> IF f = "f1" THEN <<Block("k1", "a")>> ELSE <<>>]],
      [dirs |-> {"by-type", "extra"}, files |-> {"f1", "f2"},
       disk |-> [f \in Files |-> IF f = "f1" THEN <<Block("k1", "a")>>
                                              ELSE <<Block("k2", "a")>>]] }

Idle == [pc |-> "idle", op |-> "none", key |-> "", entries |-> <<>>,
         file |-> NoFile, tmp |-> <<>>, ret |-> <<>>, written |-> <<>>,
         move |-> <<>>]

Done(op, key, file, result, ret) ==
    [op |-> op, key |-> key, file |-> file, result |-> result, ret |-> ret,
     updates |-> <<>>]

NoSave == [status |-> "none", file |-> NoFile, entries |-> <<>>,
           before |-> [exists |-> FALSE, content |-> <<>>],
           cache_before |-> [cached |-> FALSE, entries |-> <<>>]]

NoSnap == [dirs |-> {}, files |-> {}, disk |-> [f \in Files |-> <<>>],
           leftover |-> <<>>,
           load |-> [entries |-> <<>>, raised |-> FALSE],
           get |-> [k \in Keys |-> [found |-> <<>>, raised |-> FALSE]]]

\* the record of key k in store st, with the file it lives in
StoredEntry(st, k) ==
    LET at == {<<f, i>> \in Files \X (1..2) :
                  f \in st.files /\ i <= Len(st.disk[f]) /\ st.disk[f][i].ID = k}
    IN IF at = {} THEN <<>>
       ELSE LET p == CHOOSE q \in at : TRUE
            IN <<BibEntry(k, st.disk[p[1]][p[2]].ENTRYTYPE,
                          st.disk[p[1]][p[2]].fields, p[1])>>

\* Repository.__init__ over a store; no translation has been made
Constructed(st, bad) ==
    /\ dirs = st.dirs
    /\ files = st.files
    /\ disk = st.disk
    /\ unreadable = bad
    /\ rglob_order \in {<<"f1", "f2">>, <<"f2", "f1">>}
    /\ leftover = <<>>
    /\ entries_cache = <<>>
    /\ dry_run = FALSE
    /\ changeset = <<>>
    /\ call = Idle
    /\ last = Done("init", "", NoFile, "ok", <<>>)
    /\ ops = 0
    /\ faults = 0
    /\ save = NoSave
    /\ history = [written |-> [k \in Keys |-> StoredEntry(st, k)],
                  dry_used |-> FALSE]
    /\ snap = NoSnap
    /\ index = EmptyIndex
    /\ icall = IIdle
    /\ ilast = INone
    /\ iops = 0
    /\ reader = RIdle
    /\ rlast = RNone
    /\ builder = <<>>
    /\ qlast = QNone
    /\ wrapper = WIdle

\* Repository.__init__ over a store, without a query from the user
InitOver(st, bad) == Constructed(st, bad) /\ input_query = <<>> /\ pdfs = {}

\* every file can be read
InitReadable == \E st \in InitStores : InitOver(st, {})

\* the store add_entry leaves when a new Repository adds to f2 a key that f1
\* holds: add_entry reads the target file only
DuplicateStore ==
    [dirs |-> {"by-type", "extra"}, files |-> {"f1", "f2"},
     disk |-> [f \in Files |-> IF f = "f1" THEN <<Block("k1", "a")>>
                                            ELSE <<Block("k2", "a"), Block("k1", "b")>>]]

\* the stores build_index reads, files in the order f1, f2: one without
\* entries, one with a key in each file, one with a key in both files
InitIndex ==
    \E st \in {x \in InitStores : Cardinality(x.files) # 1}
                 \cup {DuplicateStore} :
        InitOver(st, {}) /\ rglob_order = <<"f1", "f2">>

\* at most one file cannot be read or parsed
Init ==
    \E st \in InitStores :
        \E bad \in {{}} \cup {{f} : f \in st.files} : InitOver(st, bad)

\* ------------------------------------------------------------------ actions
\* a call starts: the Repository is not inside another call
Begin ==
    /\ call.pc = "idle"
    /\ icall.pc = "idle"
    /\ ops < MaxOps
    /\ ops' = ops + 1
    /\ UNCHANGED <<unreadable, rglob_order>>
    /\ UNCHANGED ivars
    /\ UNCHANGED evars

\* the dry-run flag is set or cleared between calls: an assignment to two
\* attributes, which reads and writes nothing of the store
Switch ==
    /\ call.pc = "idle"
    /\ icall.pc = "idle"
    /\ UNCHANGED <<ops, unreadable, rglob_order>>
    /\ UNCHANGED ivars
    /\ UNCHANGED evars

Snapshot ==
    [dirs |-> dirs, files |-> files, disk |-> disk, leftover |-> leftover,
     load |-> LoadView, get |-> [k \in Keys |-> GetView(k)]]

\* the assignments of Repository.enable_dry_run: a new ChangeSet replaces the
\* one there is
Enables ==
    /\ dry_run' = TRUE
    /\ changeset' = <<ChangeSet>>
    /\ snap' = IF dry_run THEN snap ELSE Snapshot
    /\ last' = Done("enable", "", NoFile, "ok", <<>>)
    /\ save' = NoSave
    /\ history' = [history EXCEPT !.dry_used = TRUE]
    /\ UNCHANGED <<dirs, files, disk, leftover, entries_cache, call, faults>>

\* Repository.enable_dry_run called by a caller between two calls
enable_dry_run == Switch /\ Enables

\* the assignments of Repository.disable_dry_run
Disables ==
    /\ dry_run' = FALSE
    /\ changeset' = <<>>
    /\ snap' = NoSnap
    /\ last' = Done("disable", "", NoFile, "ok", <<>>)
    /\ save' = NoSave
    /\ UNCHANGED <<dirs, files, disk, leftover, entries_cache, call, faults,
                   history>>

\* Repository.disable_dry_run called by a caller between two calls
disable_dry_run == Switch /\ Disables

\* Repository.load_entries(force_reload)
LoadEntries(force_reload) ==
    LET r == load_entries(entries_cache, force_reload)
    IN /\ Begin
       /\ entries_cache' = r.cache
       /\ changeset' = ChangesetAfterScan(r.scanned)
       /\ last' = Done(IF force_reload THEN "reload" ELSE "load", "", NoFile,
                       IF r.raised THEN "read_error" ELSE "ok",
                       IF r.raised THEN <<>> ELSE r.entries)
       /\ save' = NoSave
       /\ UNCHANGED <<dirs, files, disk, leftover, dry_run, call, faults,
                      history, snap>>

\* Repository.get_entry(key)
GetEntry(key) ==
    LET g == get_entry(entries_cache, key)
    IN /\ Begin
       /\ entries_cache' = g.cache
       /\ changeset' = ChangesetAfterScan(g.scanned)
       /\ last' = Done("get", key, NoFile,
                       IF g.raised THEN "read_error"
                       ELSE IF g.found = <<>> THEN "none" ELSE "ok",
                       g.found)
       /\ save' = NoSave
       /\ UNCHANGED <<dirs, files, disk, leftover, dry_run, call, faults,
                      history, snap>>

\* Repository.get_entries_by_file(bib_file)
GetEntriesByFile(bib_file) ==
    LET g == get_entries_by_file(entries_cache, bib_file)
    IN /\ Begin
       /\ entries_cache' = g.cache
       /\ last' = Done("by_file", "", bib_file,
                       IF g.raised THEN "read_error" ELSE "ok", g.entries)
       /\ save' = NoSave
       /\ UNCHANGED <<dirs, files, disk, leftover, dry_run, changeset, call,
                      faults, history, snap>>

\* save_entries outside dry-run is entered: the temporary file comes next
StartSave(c, entries, bib_file, op, key, ret, written, move) ==
    /\ call' = [pc |-> "write_tmp", op |-> op, key |-> key, entries |-> entries,
                file |-> bib_file, tmp |-> <<>>, ret |-> ret,
                written |-> written, move |-> move]
    /\ save' = [status |-> "running", file |-> bib_file, entries |-> entries,
                before |-> FileView(bib_file),
                cache_before |-> [cached |-> CacheHas(c, bib_file),
                                  entries |-> CacheGet(c, bib_file)]]

\* add_entry up to its save_entries call: the target's list is cached, the key
\* is looked up in the flattened cache, the entry is appended to the list
add_pre(c, entry, target_file) ==
    LET g == get_entries_by_file(c, target_file)
        ge == get_entry(g.cache, entry.key)
    IN IF g.raised
       THEN [outcome |-> "read_error", cache |-> c, scanned |-> FALSE,
             updated |-> <<>>]
       ELSE IF ge.raised
       THEN [outcome |-> "read_error", cache |-> ge.cache, scanned |-> ge.scanned,
             updated |-> <<>>]
       ELSE IF ge.found # <<>>
       THEN [outcome |-> "ValueError", cache |-> ge.cache, scanned |-> ge.scanned,
             updated |-> <<>>]
       ELSE [outcome |-> "save", cache |-> ge.cache, scanned |-> ge.scanned,
             updated |-> g.entries \o <<[entry EXCEPT !.source_file = target_file]>>]

\* Repository.add_entry(entry, target_file)
AddEntry(entry, target_file) ==
    LET pre == add_pre(entries_cache, entry, target_file)
        cs == ChangesetAfterScan(pre.scanned)
        stored == [entry EXCEPT !.source_file = target_file]
    IN /\ Begin
       /\ dirs' = dirs \cup {Parent(target_file)}
       /\ entries_cache' = pre.cache
       /\ IF pre.outcome # "save"
          THEN /\ changeset' = cs
               /\ call' = Idle
               /\ save' = NoSave
               /\ last' = Done("add", entry.key, target_file, pre.outcome, <<>>)
          ELSE IF dry_run
          THEN /\ changeset' = <<Track(cs[1], pre.cache, pre.updated, target_file)>>
               /\ call' = Idle
               /\ save' = NoSave
               /\ last' = Done("add", entry.key, target_file, "ok", <<>>)
          ELSE /\ changeset' = cs
               /\ StartSave(pre.cache, pre.updated, target_file, "add", entry.key,
                            <<>>, <<stored>>, <<>>)
               /\ last' = Done("add", entry.key, target_file, "running", <<>>)
       /\ UNCHANGED <<files, disk, leftover, dry_run, faults, history, snap>>

\* the part remove_entry, update_entry and move_entry share: the call ends
\* without a write because the lookup raised or found nothing
EndsAtLookup(op, key, file, g) ==
    /\ entries_cache' = g.cache
    /\ changeset' = ChangesetAfterScan(g.scanned)
    /\ call' = Idle
    /\ save' = NoSave
    /\ last' = Done(op, key, file, IF g.raised THEN "read_error" ELSE "none", <<>>)
    /\ UNCHANGED <<dirs, files, disk, leftover, dry_run, faults, history, snap>>

\* Repository.remove_entry(key)
RemoveEntry(key) ==
    LET g == get_entry(entries_cache, key)
    IN /\ Begin
       /\ IF g.raised \/ g.found = <<>>
          THEN EndsAtLookup("remove", key, NoFile, g)
          ELSE LET entry == g.found[1]
                   entries == CacheGet(g.cache, entry.source_file)
                   updated == WithoutKey(entries, key)
                   cs == ChangesetAfterScan(g.scanned)
               IN /\ entries_cache' = g.cache
                  /\ IF dry_run
                     THEN /\ changeset' = <<Track(cs[1], g.cache, updated,
                                                  entry.source_file)>>
                          /\ call' = Idle
                          /\ save' = NoSave
                          /\ last' = Done("remove", key, entry.source_file, "ok",
                                          <<entry>>)
                     ELSE /\ changeset' = cs
                          /\ StartSave(g.cache, updated, entry.source_file,
                                       "remove", key, <<entry>>, <<>>, <<>>)
                          /\ last' = Done("remove", key, entry.source_file,
                                          "running", <<>>)
                  /\ UNCHANGED <<dirs, files, disk, leftover, dry_run, faults,
                                 history, snap>>

\* updated_entry of update_entry: a copy with one field set or removed
apply_updates(entry, u) ==
    [copy(entry) EXCEPT !.fields = IF u.value = None
                                   THEN remove_field(@, u.field)
                                   ELSE update_field(@, u.field, u.value)]

\* Repository.update_entry(key, updates)
UpdateEntry(key, u) ==
    LET g == get_entry(entries_cache, key)
    IN /\ Begin
       /\ IF g.raised \/ g.found = <<>>
          THEN EndsAtLookup("update", key, NoFile, g)
          ELSE LET entry == g.found[1]
                   updated_entry == apply_updates(entry, u)
                   entries == CacheGet(g.cache, entry.source_file)
                   updated_entries ==
                       [i \in 1..Len(entries) |->
                           IF entries[i].key = key THEN updated_entry
                                                   ELSE entries[i]]
                   cs == ChangesetAfterScan(g.scanned)
               IN /\ entries_cache' = g.cache
                  /\ IF dry_run
                     THEN /\ changeset' = <<Track(cs[1], g.cache, updated_entries,
                                                  entry.source_file)>>
                          /\ call' = Idle
                          /\ save' = NoSave
                          /\ last' = [Done("update", key, entry.source_file,
                                           "ok", <<updated_entry>>)
                                        EXCEPT !.updates = <<u>>]
                     ELSE /\ changeset' = cs
                          /\ StartSave(g.cache, updated_entries, entry.source_file,
                                       "update", key, <<updated_entry>>,
                                       <<updated_entry>>, <<>>)
                          /\ last' = [Done("update", key, entry.source_file,
                                           "running", <<>>)
                                        EXCEPT !.updates = <<u>>]
                  /\ UNCHANGED <<dirs, files, disk, leftover, dry_run, faults,
                                 history, snap>>

\* Repository.move_entry(key, target_file)
MoveEntry(key, target_file) ==
    LET g == get_entry(entries_cache, key)
    IN /\ Begin
       /\ IF g.raised \/ g.found = <<>>
          THEN EndsAtLookup("move", key, target_file, g)
          ELSE LET entry == g.found[1]
                   source_entries == CacheGet(g.cache, entry.source_file)
                   updated_source == WithoutKey(source_entries, key)
                   moved == [entry EXCEPT !.source_file = target_file]
                   cs == ChangesetAfterScan(g.scanned)
               IN IF entry.source_file = target_file
                  THEN \* already in target file
                       /\ entries_cache' = g.cache
                       /\ changeset' = cs
                       /\ call' = Idle
                       /\ save' = NoSave
                       /\ last' = Done("move", key, target_file, "ok", <<entry>>)
                       /\ UNCHANGED <<dirs, files, disk, leftover, dry_run, faults,
                                      history, snap>>
                  ELSE IF dry_run
                  THEN \* both save_entries calls only track; the object found
                       \* stays in the cache while its source_file is set
                       LET cs1 == Track(cs[1], g.cache, updated_source,
                                        entry.source_file)
                           c1 == SetSourceFile(g.cache, g.home, key, target_file)
                           cs2 == Retarget(cs1, g.home, key, target_file)
                           pre == add_pre(c1, moved, target_file)
                       IN /\ dirs' = dirs \cup {Parent(target_file)}
                          /\ entries_cache' = pre.cache
                          /\ call' = Idle
                          /\ save' = NoSave
                          /\ IF pre.outcome = "save"
                             THEN /\ changeset' = <<Track(cs2, pre.cache, pre.updated,
                                                          target_file)>>
                                  /\ last' = Done("move", key, target_file, "ok",
                                                  <<moved>>)
                             ELSE /\ changeset' = <<cs2>>
                                  /\ last' = Done("move", key, target_file,
                                                  pre.outcome, <<>>)
                          /\ UNCHANGED <<files, disk, leftover, dry_run, faults,
                                         history, snap>>
                  ELSE /\ entries_cache' = g.cache
                       /\ changeset' = cs
                       /\ StartSave(g.cache, updated_source, entry.source_file,
                                    "move", key, <<moved>>, <<moved>>,
                                    <<[entry |-> entry, target_file |-> target_file,
                                       home |-> g.home]>>)
                       /\ last' = Done("move", key, target_file, "running", <<>>)
                       /\ UNCHANGED <<dirs, files, disk, leftover, dry_run, faults,
                                      history, snap>>

\* save_entries: the temporary file is created in the target's directory and
\* the whole serialisation is written to it
WriteTmp ==
    /\ call.pc = "write_tmp"
    /\ Parent(call.file) \in dirs
    /\ call' = [call EXCEPT !.pc = "replace", !.tmp = Serialise(call.entries)]
    /\ UNCHANGED <<dirs, files, disk, unreadable, rglob_order, leftover,
                   entries_cache, dry_run, changeset, last, ops, faults, save,
                   history, snap>>
    /\ UNCHANGED ivars
    /\ UNCHANGED evars

\* WriteTmpFail as it would be if save_entries opened bib_file itself for
\* writing: the blocks written before the error are in the target file
WriteTmpFail_InPlace ==
    /\ call.pc = "write_tmp"
    /\ Parent(call.file) \in dirs
    /\ faults < MaxFaults
    /\ \E n \in 0..Len(call.entries) :
          disk' = [disk EXCEPT ![call.file] =
                      SubSeq(Serialise(call.entries), 1, n)]
    /\ files' = files \cup {call.file}
    /\ faults' = faults + 1
    /\ call' = Idle
    /\ save' = [save EXCEPT !.status = "failed"]
    /\ last' = Done(call.op, call.key, call.file, "write_error", <<>>)
    /\ UNCHANGED <<dirs, unreadable, rglob_order, leftover, entries_cache,
                   dry_run, changeset, ops, history, snap>>
    /\ UNCHANGED ivars
    /\ UNCHANGED evars

\* save_entries: serialising or writing raises; the temporary file stays
\* (delete=False) with the n blocks written so far, the exception leaves the call
WriteTmpFail ==
    /\ call.pc = "write_tmp"
    /\ Parent(call.file) \in dirs
    /\ faults < MaxFaults
    /\ \E n \in 0..Len(call.entries) :
          leftover' = Append(leftover,
                             [dir |-> Parent(call.file),
                              data |-> SubSeq(Serialise(call.entries), 1, n)])
    /\ faults' = faults + 1
    /\ call' = Idle
    /\ save' = [save EXCEPT !.status = "failed"]
    /\ last' = Done(call.op, call.key, call.file, "write_error", <<>>)
    /\ UNCHANGED <<dirs, files, disk, unreadable, rglob_order, entries_cache,
                   dry_run, changeset, ops, history, snap>>
    /\ UNCHANGED ivars
    /\ UNCHANGED evars

\* save_entries: tmp_path.replace(bib_file), then the cache entry is set
Replace ==
    /\ call.pc = "replace"
    /\ files' = files \cup {call.file}
    /\ disk' = [disk EXCEPT ![call.file] = call.tmp]
    /\ entries_cache' = CacheSet(entries_cache, call.file, call.entries)
    /\ save' = [save EXCEPT !.status = "done"]
    /\ IF call.move = <<>>
       THEN /\ call' = Idle
            /\ last' = Done(call.op, call.key, call.file, "ok", call.ret)
            /\ history' = [history EXCEPT !.written[call.key] = call.written]
       ELSE /\ call' = [call EXCEPT !.pc = "move_add"]
            /\ UNCHANGED <<last, history>>
    /\ UNCHANGED <<dirs, unreadable, rglob_order, leftover, dry_run, changeset,
                   ops, faults, snap>>
    /\ UNCHANGED ivars
    /\ UNCHANGED evars

\* save_entries: the rename raises; the complete temporary file stays
ReplaceFail ==
    /\ call.pc = "replace"
    /\ faults < MaxFaults
    /\ leftover' = Append(leftover, [dir |-> Parent(call.file), data |-> call.tmp])
    /\ faults' = faults + 1
    /\ call' = Idle
    /\ save' = [save EXCEPT !.status = "failed"]
    /\ last' = Done(call.op, call.key, call.file, "write_error", <<>>)
    /\ UNCHANGED <<dirs, files, disk, unreadable, rglob_order, entries_cache,
                   dry_run, changeset, ops, history, snap>>
    /\ UNCHANGED ivars
    /\ UNCHANGED evars

\* move_entry after its first save_entries: entry.source_file = target_file,
\* then add_entry(entry, target_file) up to its save_entries call
MoveAdd ==
    /\ call.pc = "move_add"
    /\ LET m == call.move[1]
           c1 == SetSourceFile(entries_cache, m.home, call.key, m.target_file)
           moved == [m.entry EXCEPT !.source_file = m.target_file]
           pre == add_pre(c1, moved, m.target_file)
       IN /\ dirs' = dirs \cup {Parent(m.target_file)}
          /\ entries_cache' = pre.cache
          /\ IF pre.outcome = "save"
             THEN /\ StartSave(pre.cache, pre.updated, m.target_file, "move",
                               call.key, <<moved>>, <<moved>>, <<>>)
                  /\ UNCHANGED last
             ELSE /\ call' = Idle
                  /\ last' = Done("move", call.key, m.target_file, pre.outcome,
                                  <<>>)
                  /\ UNCHANGED save
    /\ UNCHANGED <<files, disk, unreadable, rglob_order, leftover, dry_run,
                   changeset, ops, faults, history, snap>>
    /\ UNCHANGED ivars
    /\ UNCHANGED evars

\* Repository.save_entries(entries, bib_file) called by a caller: in dry-run the
\* diff against the cached list goes to the ChangeSet and the call returns;
\* otherwise the write starts
SaveEntries(entries, bib_file) ==
    /\ Begin
    /\ IF dry_run
       THEN /\ changeset' = <<Track(changeset[1], entries_cache, entries, bib_file)>>
            /\ call' = Idle
            /\ save' = [status |-> "tracked", file |-> bib_file,
                        entries |-> entries, before |-> FileView(bib_file),
                        cache_before |-> CacheView(bib_file)]
            /\ last' = Done("save", "", bib_file, "ok", <<>>)
       ELSE /\ StartSave(entries_cache, entries, bib_file, "save", "", <<>>, <<>>,
                         <<>>)
            /\ last' = Done("save", "", bib_file, "running", <<>>)
            /\ UNCHANGED changeset
    /\ UNCHANGED <<dirs, files, disk, leftover, entries_cache, dry_run, faults,
                   history, snap>>

\* save_entries: the directory of bib_file does not exist, so creating the
\* temporary file raises and nothing is written
WriteTmpNoDir ==
    /\ call.pc = "write_tmp"
    /\ Parent(call.file) \notin dirs
    /\ call' = Idle
    /\ save' = [save EXCEPT !.status = "failed"]
    /\ last' = Done(call.op, call.key, call.file, "write_error", <<>>)
    /\ UNCHANGED <<dirs, files, disk, unreadable, rglob_order, leftover,
                   entries_cache, dry_run, changeset, ops, faults, history, snap>>
    /\ UNCHANGED ivars
    /\ UNCHANGED evars

\* ------------------------------------------------ actions of the Index Store
\* a call on the Index Store starts: no other call is in progress
IBegin ==
    /\ call.pc = "idle"
    /\ icall.pc = "idle"
    /\ iops < MaxIndexOps
    /\ iops' = iops + 1
    /\ UNCHANGED <<dirs, files, disk, unreadable, rglob_order, leftover,
                   dry_run, changeset, call, last, ops, save, history, snap>>
    /\ UNCHANGED evars

\* the call ends with this result.  from is the committed database the call
\* started from (for build_index: after its clear_all); mode is "plain"
\* while only insert_entry, insert_entries_batch, clear_all and the searches
\* have been called, "sql" once execute_sql has been, "tools" otherwise
IDone(op, result, ret, from, mode, inserted) ==
    [op |-> op, result |-> result, ret |-> ret, query |-> "", limit |-> 0,
     offset |-> 0, entries |-> <<>>, batch_size |-> 0, failed_batch |-> 0,
     from |-> from, mode |-> mode, inserted |-> inserted, file |-> NoFile]

Tools(mode) == IF mode = "sql" THEN "sql" ELSE "tools"

\* BibliographyDB.insert_entry
InsertEntry(entry) ==
    /\ IBegin
    /\ index' = insert_or_replace(index, entry)
    /\ ilast' = [IDone("insert", "ok", <<>>, index, ilast.mode,
                       Touch(ilast.inserted, <<entry>>))
                    EXCEPT !.entries = <<entry>>]
    /\ UNCHANGED <<entries_cache, faults, icall>>

\* BibliographyDB.clear_all
ClearAll ==
    /\ IBegin
    /\ index' = clear_all(index)
    /\ ilast' = IDone("clear_all", "ok", <<>>, index, ilast.mode, <<>>)
    /\ UNCHANGED <<entries_cache, faults, icall>>

\* BibliographyDB.rebuild_fts_from_entries
RebuildFtsFromEntries ==
    /\ IBegin
    /\ index' = rebuild_fts_from_entries(index)
    /\ ilast' = IDone("rebuild", "ok", <<>>, index, Tools(ilast.mode),
                      ilast.inserted)
    /\ UNCHANGED <<entries_cache, faults, icall>>

\* BibliographyDB.execute_sql with one of the damaging statements
ExecuteSql(stmt) ==
    /\ IBegin
    /\ index' = execute_sql(index, stmt)
    /\ ilast' = IDone("execute_sql", "ok", <<>>, index, "sql",
                      IF stmt.table = "entries"
                      THEN Untouch(ilast.inserted, stmt.key)
                      ELSE ilast.inserted)
    /\ UNCHANGED <<entries_cache, faults, icall>>

\* BibliographyDB.search_fts
SearchFts(query, limit, offset) ==
    /\ IBegin
    /\ LET r == search_fts(index, query, limit, offset)
       IN ilast' = [IDone("search_fts", IF r.raised THEN "error" ELSE "ok",
                          r.results, index, ilast.mode, ilast.inserted)
                       EXCEPT !.query = query, !.limit = limit,
                              !.offset = offset]
    /\ UNCHANGED <<entries_cache, faults, index, icall>>

\* SearchEngine.search with sort_by = "relevance"
SearchEngineSearch(query, limit, offset) ==
    /\ IBegin
    /\ LET fts_query == prepare_fts_query(query)
           r == search_fts(index, fts_query, limit, offset)
       IN ilast' = [IDone("search", IF r.raised THEN "error" ELSE "ok",
                          r.results, index, ilast.mode, ilast.inserted)
                       EXCEPT !.query = fts_query, !.limit = limit,
                              !.offset = offset]
    /\ UNCHANGED <<entries_cache, faults, index, icall>>

\* insert_entries_batch is entered: the connection is opened and the loop
\* over range(0, len(entries), batch_size) starts
StartBatch(op, entries, batch_size, chunks, ix, listed, mode, ins) ==
    /\ icall' = [pc |-> "batch", op |-> op, entries |-> entries,
                 rest |-> entries, batch_size |-> batch_size, work |-> ix,
                 written |-> 0, chunks |-> chunks]
    /\ ilast' = [IDone(op, "running", <<>>, ix, mode, ins)
                    EXCEPT !.entries = listed, !.batch_size = batch_size]

\* BibliographyDB.insert_entries_batch
InsertEntriesBatch(entries, batch_size) ==
    /\ IBegin
    /\ StartBatch("batch", entries, batch_size, <<>>, index, entries,
                  ilast.mode, ilast.inserted)
    /\ UNCHANGED <<entries_cache, faults, index>>

\* BatchWrite as it would be with batch = entries[i : i + batch_size - 1]
BatchWrite_ShortSlice ==
    /\ icall.pc = "batch"
    /\ icall.rest # <<>>
    /\ LET n == Min({icall.batch_size, Len(icall.rest)})
       IN icall' = [icall EXCEPT
                       !.work = executemany(icall.work,
                                            SubSeq(icall.rest, 1, n - 1)),
                       !.rest = SubSeq(icall.rest, n + 1, Len(icall.rest)),
                       !.written = icall.written + 1]
    /\ UNCHANGED <<dirs, files, disk, unreadable, rglob_order, leftover,
                   entries_cache, dry_run, changeset, call, last, ops, faults,
                   save, history, snap, index, ilast, iops>>
    /\ UNCHANGED evars

\* one turn of the loop: the values of the next batch go through executemany,
\* inside the transaction the first INSERT opened
BatchWrite ==
    /\ icall.pc = "batch"
    /\ icall.rest # <<>>
    /\ LET n == Min({icall.batch_size, Len(icall.rest)})
       IN icall' = [icall EXCEPT
                       !.work = executemany(icall.work, SubSeq(icall.rest, 1, n)),
                       !.rest = SubSeq(icall.rest, n + 1, Len(icall.rest)),
                       !.written = icall.written + 1]
    /\ UNCHANGED <<dirs, files, disk, unreadable, rglob_order, leftover,
                   entries_cache, dry_run, changeset, call, last, ops, faults,
                   save, history, snap, index, ilast, iops>>
    /\ UNCHANGED evars

\* BatchFail as it would be if conn.commit() stood inside the loop: the
\* batches written before the failing one are committed
BatchFail_CommitPerBatch ==
    /\ icall.pc = "batch"
    /\ icall.rest # <<>>
    /\ faults < MaxFaults
    /\ faults' = faults + 1
    /\ index' = icall.work
    /\ icall' = IIdle
    /\ ilast' = [ilast EXCEPT !.result = "error",
                              !.failed_batch = icall.written + 1]
    /\ UNCHANGED <<dirs, files, disk, unreadable, rglob_order, leftover,
                   entries_cache, dry_run, changeset, call, last, ops, save,
                   history, snap, iops>>
    /\ UNCHANGED evars

\* json.dumps or executemany raises in the next batch: the exception leaves
\* the with block, conn.close() drops the uncommitted transaction
BatchFail ==
    /\ icall.pc = "batch"
    /\ icall.rest # <<>>
    /\ faults < MaxFaults
    /\ faults' = faults + 1
    /\ icall' = IIdle
    /\ ilast' = [ilast EXCEPT !.result = "error",
                              !.failed_batch = icall.written + 1]
    /\ UNCHANGED <<dirs, files, disk, unreadable, rglob_order, leftover,
                   entries_cache, dry_run, changeset, call, last, ops, save,
                   history, snap, index, iops>>
    /\ UNCHANGED evars

\* conn.commit() after the loop; build_index then goes on with its next
\* chunk, or with optimize() after the last one
BatchCommit ==
    /\ icall.pc = "batch"
    /\ icall.rest = <<>>
    /\ IF icall.chunks # <<>>
       THEN /\ index' = icall.work
            /\ icall' = [icall EXCEPT !.entries = Head(icall.chunks),
                                      !.rest = Head(icall.chunks),
                                      !.work = icall.work,
                                      !.batch_size = Len(Head(icall.chunks)),
                                      !.written = 0,
                                      !.chunks = Tail(icall.chunks)]
            /\ ilast' = [ilast EXCEPT
                            !.inserted = Touch(ilast.inserted, icall.entries)]
       ELSE /\ index' = IF icall.op = "build" THEN optimize(icall.work)
                                              ELSE icall.work
            /\ icall' = IIdle
            /\ ilast' = [ilast EXCEPT
                            !.result = "ok",
                            !.inserted = Touch(ilast.inserted, icall.entries)]
    /\ UNCHANGED <<dirs, files, disk, unreadable, rglob_order, leftover,
                   entries_cache, dry_run, changeset, call, last, ops, faults,
                   save, history, snap, iops>>
    /\ UNCHANGED evars

\* IndexBuilder.build_index up to its first insert_entries_batch call:
\* _build_with_progress inserts chunk by chunk, each chunk one call with
\* batch_size = len(chunk); _build_silent inserts the list in one call
BuildIndex(clear_existing, show_progress) ==
    /\ IBegin
    /\ LET ix == IF clear_existing THEN clear_all(index) ELSE index
           ins == IF clear_existing THEN <<>> ELSE ilast.inserted
           r == load_entries(entries_cache, FALSE)
           chunks == Chunks(r.entries, ChunkSize)
       IN /\ entries_cache' = r.cache
          /\ index' = ix
          /\ IF r.raised \/ r.entries = <<>>
             THEN /\ ilast' = IDone("build", IF r.raised THEN "read_error"
                                                         ELSE "ok",
                                    <<>>, ix, Tools(ilast.mode), ins)
                  /\ UNCHANGED icall
             ELSE /\ IF show_progress
                     THEN StartBatch("build", Head(chunks), Len(Head(chunks)),
                                     Tail(chunks), ix, r.entries,
                                     Tools(ilast.mode), ins)
                     ELSE StartBatch("build", r.entries, ChunkSize, <<>>, ix,
                                     r.entries, Tools(ilast.mode), ins)
    /\ UNCHANGED faults

\* the reader's connection sees the committed database: the writer's
\* transaction is on another connection and WAL readers do not wait for it
Reads ==
    /\ UNCHANGED <<dirs, files, disk, unreadable, rglob_order, leftover,
                   entries_cache, dry_run, changeset, call, last, ops, faults,
                   save, history, snap>>
    /\ UNCHANGED ivars
    /\ UNCHANGED <<input_query, builder, qlast, wrapper, pdfs>>

\* is an insert_entries_batch call (made directly or by update_index) between
\* its first INSERT and its commit?
BatchInProgress == icall.pc = "batch" /\ icall.op \in {"batch", "update_index"}

\* get_statistics on the reader's connection, first statement:
\* SELECT COUNT(*) FROM entries, a read transaction of its own
StatsCountEntries ==
    /\ reader.pc = "idle"
    /\ reader' = [pc |-> "stats", total_entries |-> Len(index.tbl),
                  start |-> index, writing |-> BatchInProgress, iops |-> iops]
    /\ UNCHANGED rlast
    /\ Reads

\* get_statistics, last statement: SELECT COUNT(*) FROM entries_fts, another
\* read transaction; the dictionary is returned
StatsCountFts ==
    /\ reader.pc = "stats"
    /\ rlast' = [RNone EXCEPT !.op = "stats",
                              !.total_entries = reader.total_entries,
                              !.fts_entries = Len(index.fts),
                              !.start = reader.start,
                              !.end = index,
                              !.one_batch = reader.writing /\ reader.iops = iops]
    /\ reader' = RIdle
    /\ Reads

\* search_fts on the reader's connection: one SELECT over both tables
ReaderSearchFts(query) ==
    /\ reader.pc = "idle"
    /\ rlast' = [RNone EXCEPT !.op = "search",
                              !.query = query,
                              !.results = search_fts(index, query, 2, 0).results,
                              !.start = index,
                              !.end = index,
                              !.one_batch = BatchInProgress]
    /\ UNCHANGED reader
    /\ Reads

\* a translation reads and writes nothing of the stores
Translates ==
    /\ UNCHANGED <<dirs, files, disk, unreadable, rglob_order, leftover,
                   entries_cache, dry_run, changeset, call, last, ops, faults,
                   save, history, snap>>
    /\ UNCHANGED ivars
    /\ UNCHANGED <<reader, rlast, input_query, wrapper, pdfs>>

\* queries a caller translates with the same QueryBuilder before or after
\* the user's: a plain word and a qualifier with an unknown field
FollowUps == {<<"a">>, <<"f", ":", "a">>}

\* QueryBuilder.build_query(user_query), then get_warnings(), on the
\* QueryBuilder that lives across calls
BuildQuery(query) ==
    /\ LET r == build_query(builder, query)
       IN /\ builder' = r.warnings
          /\ qlast' = [op |-> "build_query", query |-> query, text |-> r.text,
                       warnings |-> r.warnings, before |-> builder]
    /\ Translates

\* parse_query(user_query): the QueryBuilder is made for the call
ParseQuery ==
    /\ LET r == parse_query(input_query)
       IN qlast' = [op |-> "parse_query", query |-> input_query,
                    text |-> r.text, warnings |-> r.warnings, before |-> <<>>]
    /\ UNCHANGED builder
    /\ Translates

\* SearchEngine.search up to its search_fts call: the string it passes
PrepareFtsQuery ==
    /\ qlast' = [op |-> "search", query |-> input_query,
                 text |-> prepare_fts_chars(input_query), warnings |-> <<>>,
                 before |-> <<>>]
    /\ UNCHANGED builder
    /\ Translates

\* batch_size of the insert_entries_batch call update_index makes: the default
DefaultBatchSize == 1000

\* IndexBuilder.update_index([file_path]) up to its insert_entries_batch call:
\* the rows of the file are read and none is deleted, the file's records come
\* from the Repository, and an empty list is not inserted
UpdateIndex(file_path) ==
    /\ IBegin
    /\ LET g == get_entries_by_file(entries_cache, file_path)
       IN /\ entries_cache' = g.cache
          /\ IF g.raised \/ g.entries = <<>>
             THEN /\ ilast' = [IDone("update_index",
                                     IF g.raised THEN "read_error" ELSE "ok",
                                     <<>>, index, ilast.mode, ilast.inserted)
                                  EXCEPT !.file = file_path]
                  /\ UNCHANGED icall
             ELSE /\ icall' = [pc |-> "batch", op |-> "update_index",
                               entries |-> g.entries, rest |-> g.entries,
                               batch_size |-> DefaultBatchSize, work |-> index,
                               written |-> 0, chunks |-> <<>>]
                  /\ ilast' = [IDone("update_index", "running", <<>>, index,
                                     ilast.mode, ilast.inserted)
                                  EXCEPT !.entries = g.entries,
                                         !.batch_size = DefaultBatchSize,
                                         !.file = file_path]
    /\ UNCHANGED <<faults, index>>

\* ------------------------------------- the functions of bibmgr.operations
\* PDF files an entry's `file` field can name
PdfPaths == {"p1", "p2"}

\* the `file` field move_pdf writes: f":{new_path}:pdf"
FileField(path) == IF path = "p1" THEN ":p1:pdf" ELSE ":p2:pdf"

\* BibEntry.file_path: <<>> is None.  A value of the form :path:pdf gives the
\* path; any other value is taken as the path itself
FilePath(entry) ==
    IF "file" \notin DOMAIN entry.fields THEN <<>>
    ELSE LET v == entry.fields["file"]
         IN IF v = None THEN <<>>
            ELSE IF \E q \in PdfPaths : v = FileField(q)
            THEN <<CHOOSE q \in PdfPaths : v = FileField(q)>>
            ELSE <<v>>

\* validators.MANDATORY_FIELDS for the entry types of the model
MANDATORY_FIELDS ==
    [article |-> {"author", "title", "journal", "year"},
     book |-> {"title", "publisher", "year"}]

\* BibEntry.validate_mandatory_fields: the mandatory fields the entry lacks
validate_mandatory_fields(entry) ==
    IF entry.entry_type \in DOMAIN MANDATORY_FIELDS
    THEN MANDATORY_FIELDS[entry.entry_type] \ DOMAIN entry.fields
    ELSE {}

\* <root>/bibtex/by-type/<entry_type>.bib: f1 is by-type/article.bib, the one
\* file of the model in that directory
ByTypeFile(entry_type) == CHOOSE f \in Files : Parent(f) = "by-type"

\* what prompt_for_entry returns when the user answers every prompt and
\* confirms: every mandatory field has a value, the key is the one typed
PromptedEntries(entry_type) ==
    {BibEntry(k, entry_type,
              [x \in MANDATORY_FIELDS[entry_type] |-> "b"], NoFile) : k \in Keys}

\* arguments of a wrapper the call does not use
NoArgs == [key |-> "", entry_type |-> "", flag |-> FALSE, remove_pdf |-> FALSE,
           updates |-> <<>>, path |-> "", field |-> "", old_value |-> "",
           new_value |-> ""]

\* a repository call the wrapper makes after its prompts
Mutation(op, key, entry, u) == [op |-> op, key |-> key, entry |-> entry, u |-> u]

\* the wrapper returns from inside try, before its repository mutation
Exit(kind) ==
    [exit |-> kind, todo |-> <<>>, entry |-> <<>>, pdfs |-> pdfs, mkdir |-> {}]

\* the wrapper goes on to its repository mutations
Go(todo, entry, p, mkdir) ==
    [exit |-> "proceed", todo |-> todo, entry |-> entry, pdfs |-> p,
     mkdir |-> mkdir]

\* the answers a Confirm.ask can get: the user may refuse where one is asked
Confirm(asked, go) == IF asked THEN {Exit("cancel"), go} ELSE {go}

\* the entries of a list that are in a set, in the order of the list
KeptIn(entries, S) == LET In(e) == e \in S IN SelectSeq(entries, In)

\* the loop of a batch wrapper: one repository call for each entry
ForEach(op, entries, u) ==
    [i \in 1..Len(entries) |-> Mutation(op, entries[i].key, <<>>, u)]

\* operations.add.add_entry from try to repo.add_entry: the type is validated,
\* the key looked up, the entry prompted for, by-type created
add_entry_decide(w) ==
    IF w.args.entry_type \notin DOMAIN MANDATORY_FIELDS
    THEN {Exit("unknown_type")}
    ELSE IF w.args.key # "" /\ last.ret # <<>>
    THEN {Exit("exists")}
    ELSE {Exit("cancel")} \cup
         {Go(<<Mutation("add", e.key, <<e>>, <<>>)>>, <<e>>, pdfs, {"by-type"}) :
             e \in PromptedEntries(w.args.entry_type)}

\* operations.add.add_from_file from try on: Repository has no _load_file, so
\* temp_repo._load_file raises AttributeError
add_from_file_decide(w) == {Exit("exception")}

\* operations.remove.remove_entry from try to repo.remove_entry
remove_entry_decide(w) ==
    IF last.ret = <<>> THEN {Exit("not_found")}
    ELSE Confirm(~w.args.flag,
                 Go(<<Mutation("remove", w.args.key, <<>>, <<>>)>>, last.ret,
                    pdfs, {}))

\* operations.remove.remove_orphaned_entries from try to its loop
remove_orphaned_entries_decide(w) ==
    LET orphaned == KeptIn(last.ret, {e \in Range(last.ret) :
                               /\ FilePath(e) # <<>>
                               /\ FilePath(e)[1] \notin pdfs})
    IN IF orphaned = <<>> THEN {Exit("none_found")}
       ELSE Confirm(TRUE, Go(ForEach("remove", orphaned, <<>>), <<>>, pdfs, {}))

\* operations.remove.remove_by_type from try to its loop: both confirmations
\* can refuse
remove_by_type_decide(w) ==
    LET entries == KeptIn(last.ret, {e \in Range(last.ret) :
                              e.entry_type = w.args.entry_type})
    IN IF entries = <<>> THEN {Exit("none_found")}
       ELSE Confirm(TRUE, Go(ForEach("remove", entries, <<>>), <<>>, pdfs, {}))

\* operations.update.update_entry from try to repo.update_entry.  With
\* interactive (flag) the prompts can put a value or a deletion in `updates`
update_entry_decide(w) ==
    IF last.ret = <<>> THEN {Exit("not_found")}
    ELSE IF w.args.updates = <<>> /\ ~w.args.flag THEN {Exit("nothing_to_do")}
    ELSE LET entry == last.ret[1]
             typed == IF w.args.flag THEN {<<u>> : u \in Updates} ELSE {}
             Outcome(updates) ==
                 IF updates = <<>> THEN {Exit("no_changes")}
                 ELSE LET new_entry == apply_updates(entry, updates[1])
                          missing == validate_mandatory_fields(new_entry)
                      IN Confirm(missing # {} \/ w.args.flag,
                                 Go(<<Mutation("update", w.args.key, <<>>,
                                               updates)>>,
                                    last.ret, pdfs, {}))
         IN UNION {Outcome(updates) : updates \in {w.args.updates} \cup typed}

\* operations.update.update_field_batch from try to its loop
update_field_batch_decide(w) ==
    LET Get(e) == IF w.args.field \in DOMAIN e.fields
                  THEN e.fields[w.args.field] ELSE ""
        matches == KeptIn(last.ret, {e \in Range(last.ret) :
                              /\ w.args.entry_type \in {"", e.entry_type}
                              /\ Get(e) = w.args.old_value})
        updates == <<[field |-> w.args.field, value |-> w.args.new_value]>>
    IN IF matches = <<>> THEN {Exit("none_found")}
       ELSE Confirm(TRUE, Go(ForEach("update", matches, updates), <<>>, pdfs, {}))

\* operations.update.move_pdf from try to repo.update_entry: the file is
\* renamed when the dry_run ARGUMENT is false and the file exists; a rename
\* that raises ends the call
move_pdf_decide(w) ==
    IF last.ret = <<>> THEN {Exit("not_found")}
    ELSE LET old_path == FilePath(last.ret[1])
             new_path == w.args.path
             go == Go(<<Mutation("update", w.args.key, <<>>,
                                 <<[field |-> "file",
                                    value |-> FileField(new_path)]>>)>>,
                      last.ret,
                      IF ~w.dry_run /\ old_path[1] \in pdfs
                      THEN (pdfs \ {old_path[1]}) \cup {new_path} ELSE pdfs,
                      {})
         IN IF old_path = <<>> THEN {Exit("no_file")}
            ELSE (IF old_path[1] \notin pdfs THEN {Exit("cancel")} ELSE {}) \cup
                 (IF new_path \in pdfs THEN {Exit("target_exists")}
                  ELSE {Exit("cancel"), go} \cup
                       (IF ~w.dry_run /\ old_path[1] \in pdfs
                        THEN {Exit("rename_error")} ELSE {}))

\* the read a wrapper makes first: get_entry(key), load_entries(), or none
Lookup(w) ==
    CASE w.name = "add_entry" ->
             IF w.args.entry_type \in DOMAIN MANDATORY_FIELDS /\ w.args.key # ""
             THEN "get" ELSE "none"
      [] w.name = "add_from_file" -> "none"
      [] w.name \in {"remove_entry", "update_entry", "move_pdf"} -> "get"
      [] OTHER -> "load"

\* an exception left the last repository call
CallRaised == last.result \in {"read_error", "ValueError", "write_error"}

\* what a wrapper can do once its first read has returned
Outcomes(w) ==
    IF Lookup(w) # "none" /\ CallRaised THEN {Exit("exception")}
    ELSE CASE w.name = "add_entry" -> add_entry_decide(w)
           [] w.name = "add_from_file" -> add_from_file_decide(w)
           [] w.name = "remove_entry" -> remove_entry_decide(w)
           [] w.name = "remove_orphaned_entries" ->
                  remove_orphaned_entries_decide(w)
           [] w.name = "remove_by_type" -> remove_by_type_decide(w)
           [] w.name = "update_entry" -> update_entry_decide(w)
           [] w.name = "update_field_batch" -> update_field_batch_decide(w)
           [] OTHER -> move_pdf_decide(w)

\* a step of a wrapper between two repository calls: the Repository and the
\* Index Store are idle, and the step is not one of their calls
Between ==
    /\ call.pc = "idle"
    /\ icall.pc = "idle"
    /\ UNCHANGED <<ops, unreadable, rglob_order>>
    /\ UNCHANGED ivars
    /\ UNCHANGED <<reader, rlast, input_query, builder, qlast>>

\* a wrapper is called: `if dry_run: repo.enable_dry_run()`, then try is entered
Invoke(name, args, dry) ==
    /\ wrapper.pc \in {"idle", "closed"}
    /\ wrapper.calls < MaxCalls
    /\ Between
    /\ IF dry THEN Enables
       ELSE UNCHANGED <<dirs, files, disk, leftover, entries_cache, dry_run,
                        changeset, call, last, faults, save, history, snap>>
    /\ wrapper' = [pc |-> "open", name |-> name, dry_run |-> dry, args |-> args,
                   mark |-> ops, todo |-> <<>>, entry |-> <<>>,
                   enables |-> IF dry THEN 1 ELSE 0, disables |-> 0,
                   exit |-> "none", calls |-> wrapper.calls + 1,
                   before |-> [dry_run |-> dry_run, changeset |-> changeset,
                               files |-> files, disk |-> disk]]
    /\ UNCHANGED pdfs

\* `finally: repo.disable_dry_run()`, whatever the dry_run argument was
Finally(kind, p) ==
    /\ Disables
    /\ wrapper' = [wrapper EXCEPT !.pc = "closed", !.exit = kind,
                                  !.disables = @ + 1]
    /\ pdfs' = p

\* operations.add.add_entry(repo, entry_type, key, dry_run)
operations_add_entry(entry_type, key, dry) ==
    Invoke("add_entry", [NoArgs EXCEPT !.entry_type = entry_type, !.key = key],
           dry)

\* operations.add.add_from_file(repo, bib_file, dry_run): a file that does not
\* exist ends the call before enable_dry_run and outside try
operations_add_from_file(exists, dry) ==
    IF exists THEN Invoke("add_from_file", NoArgs, dry)
    ELSE /\ wrapper.pc \in {"idle", "closed"}
         /\ wrapper.calls < MaxCalls
         /\ Between
         /\ wrapper' = [WIdle EXCEPT !.pc = "closed", !.name = "add_from_file",
                                     !.dry_run = dry, !.mark = ops,
                                     !.exit = "missing_file",
                                     !.calls = wrapper.calls + 1,
                                     !.before = [dry_run |-> dry_run,
                                                 changeset |-> changeset,
                                                 files |-> files, disk |-> disk]]
         /\ UNCHANGED <<dirs, files, disk, leftover, entries_cache, dry_run,
                        changeset, call, last, faults, save, history, snap, pdfs>>

\* operations.remove.remove_entry(repo, key, remove_pdf, force, dry_run)
operations_remove_entry(key, remove_pdf, force, dry) ==
    Invoke("remove_entry",
           [NoArgs EXCEPT !.key = key, !.remove_pdf = remove_pdf, !.flag = force],
           dry)

\* operations.remove.remove_orphaned_entries(repo, dry_run)
operations_remove_orphaned_entries(dry) ==
    Invoke("remove_orphaned_entries", NoArgs, dry)

\* operations.remove.remove_by_type(repo, entry_type, dry_run)
operations_remove_by_type(entry_type, dry) ==
    Invoke("remove_by_type", [NoArgs EXCEPT !.entry_type = entry_type], dry)

\* operations.update.update_entry(repo, key, updates, interactive, dry_run)
operations_update_entry(key, updates, interactive, dry) ==
    Invoke("update_entry",
           [NoArgs EXCEPT !.key = key, !.updates = updates, !.flag = interactive],
           dry)

\* operations.update.update_field_batch(repo, field, old_value, new_value,
\* entry_type=None, dry_run)
operations_update_field_batch(field, old_value, new_value, dry) ==
    Invoke("update_field_batch",
           [NoArgs EXCEPT !.field = field, !.old_value = old_value,
                          !.new_value = new_value],
           dry)

\* operations.update.move_pdf(repo, key, new_path, dry_run)
operations_move_pdf(key, new_path, dry) ==
    Invoke("move_pdf", [NoArgs EXCEPT !.key = key, !.path = new_path], dry)

\* the wrapper's first read: repo.get_entry(key)
LookupByKey ==
    /\ wrapper.pc = "open"
    /\ ops = wrapper.mark
    /\ Lookup(wrapper) = "get"
    /\ GetEntry(wrapper.args.key)

\* the wrapper's first read: repo.load_entries(), directly or through
\* get_entries_by_type
LookupAll ==
    /\ wrapper.pc = "open"
    /\ ops = wrapper.mark
    /\ Lookup(wrapper) = "load"
    /\ LoadEntries(FALSE)

\* the first read, if any, has returned or raised
Decides ==
    /\ wrapper.pc = "open"
    /\ ops = wrapper.mark + (IF Lookup(wrapper) = "none" THEN 0 ELSE 1)

\* EarlyReturn as it would be without try/finally: a return or an exception
\* before the mutations leaves the wrapper without disable_dry_run
EarlyReturn_NoFinally ==
    /\ Decides
    /\ Between
    /\ \E d \in Outcomes(wrapper) :
          /\ d.exit # "proceed"
          /\ wrapper' = [wrapper EXCEPT !.pc = "closed", !.exit = d.exit]
    /\ UNCHANGED <<dirs, files, disk, leftover, entries_cache, dry_run,
                   changeset, call, last, faults, save, history, snap, pdfs>>

\* the wrapper returns or an exception leaves it before its mutations
EarlyReturn ==
    /\ Decides
    /\ Between
    /\ \E d \in Outcomes(wrapper) : d.exit # "proceed" /\ Finally(d.exit, pdfs)

\* prompts answered: the wrapper goes on to its repository mutations
Proceed ==
    /\ Decides
    /\ Between
    /\ \E d \in Outcomes(wrapper) :
          /\ d.exit = "proceed"
          /\ wrapper' = [wrapper EXCEPT !.pc = "apply", !.todo = d.todo,
                                        !.entry = d.entry, !.mark = ops]
          /\ pdfs' = d.pdfs
          /\ dirs' = dirs \cup d.mkdir
    /\ UNCHANGED <<files, disk, leftover, entries_cache, dry_run, changeset,
                   call, last, faults, save, history, snap>>

\* has a mutation of the wrapper raised?
ApplyRaised == ops > wrapper.mark /\ CallRaised

\* the next repository mutation of the wrapper
Apply ==
    /\ wrapper.pc = "apply"
    /\ ~ApplyRaised
    /\ ops - wrapper.mark < Len(wrapper.todo)
    /\ LET m == wrapper.todo[ops - wrapper.mark + 1]
       IN CASE m.op = "add" ->
                   AddEntry(m.entry[1], ByTypeFile(wrapper.args.entry_type))
            [] m.op = "remove" -> RemoveEntry(m.key)
            [] OTHER -> UpdateEntry(m.key, m.u[1])

\* the PDF files after remove_entry's unlink, which runs when the dry_run
\* ARGUMENT is false and can fail without ending the call
AfterUnlink(w) ==
    IF /\ w.name = "remove_entry"
       /\ w.args.remove_pdf
       /\ ~w.dry_run
       /\ ~ApplyRaised
       /\ FilePath(w.entry[1]) # <<>>
       /\ FilePath(w.entry[1])[1] \in pdfs
    THEN {pdfs \ {FilePath(w.entry[1])[1]}, pdfs}
    ELSE {pdfs}

\* the wrapper returns after its mutations, or one of them raised
Return ==
    /\ wrapper.pc = "apply"
    /\ Between
    /\ ApplyRaised \/ ops - wrapper.mark = Len(wrapper.todo)
    /\ \E p \in AfterUnlink(wrapper) :
          Finally(IF ApplyRaised THEN "exception" ELSE "return", p)

\* a caller's own calls are made outside a wrapper
Outside == wrapper.pc \in {"idle", "closed"}

Next ==
    \/ enable_dry_run
    \/ disable_dry_run
    \/ \E force_reload \in BOOLEAN : LoadEntries(force_reload)
    \/ \E key \in Keys : GetEntry(key)
    \/ \E bib_file \in Files : GetEntriesByFile(bib_file)
    \/ \E entry \in NewEntries, target_file \in Files : AddEntry(entry, target_file)
    \/ \E key \in Keys : RemoveEntry(key)
    \/ \E key \in Keys, u \in Updates : UpdateEntry(key, u)
    \/ \E key \in Keys, target_file \in Files : MoveEntry(key, target_file)
    \/ WriteTmp
    \/ WriteTmpFail
    \/ Replace
    \/ ReplaceFail
    \/ MoveAdd

\* the calls the Record Store claims speak of: the four mutations, the two
\* reads get() and load(), and the dry-run switch
NextMutations ==
    \/ enable_dry_run
    \/ disable_dry_run
    \/ LoadEntries(FALSE)
    \/ \E key \in Keys : GetEntry(key)
    \/ \E entry \in NewEntries, target_file \in Files : AddEntry(entry, target_file)
    \/ \E key \in Keys : RemoveEntry(key)
    \/ \E key \in Keys, u \in Updates : UpdateEntry(key, u)
    \/ \E key \in Keys, target_file \in Files : MoveEntry(key, target_file)
    \/ WriteTmp
    \/ WriteTmpFail
    \/ Replace
    \/ ReplaceFail
    \/ MoveAdd

\* every call, on a Repository over a store of which a file may be unreadable
Spec == Init /\ [][Next]_vars

\* add/remove/update/move with get() and load(), on a Repository over a store
\* whose files can all be read
SpecMutations == InitReadable /\ [][NextMutations]_vars

\* save_entries called directly, in and out of dry-run, on a Repository whose
\* cache is filled by load_entries and get_entries_by_file
NextPersist ==
    \/ enable_dry_run
    \/ disable_dry_run
    \/ LoadEntries(FALSE)
    \/ \E bib_file \in Files : GetEntriesByFile(bib_file)
    \/ \E entries \in SaveLists, bib_file \in Files : SaveEntries(entries, bib_file)
    \/ WriteTmp
    \/ WriteTmpNoDir
    \/ WriteTmpFail
    \/ Replace
    \/ ReplaceFail

\* the stores that hold a record, and one with two records in a file
InitPersist ==
    \E st \in {x \in InitStores : x.files # {}} \cup {DuplicateStore} :
        InitOver(st, {})

SpecPersist == InitPersist /\ [][NextPersist]_vars

\* the Repository changes the files between a build_index and an update_index
NextUpdate ==
    \/ BuildIndex(TRUE, FALSE)
    \/ \E file_path \in Files : UpdateIndex(file_path)
    \/ BatchWrite
    \/ BatchCommit
    \/ \E key \in Keys : RemoveEntry(key)
    \/ \E key \in Keys : UpdateEntry(key, [field |-> "title", value |-> "b"])
    \/ \E key \in Keys : MoveEntry(key, "f2")
    \/ WriteTmp
    \/ Replace
    \/ MoveAdd

\* the stores that hold a record
InitUpdate == \E st \in {x \in InitStores : x.files # {}} : InitOver(st, {})

SpecUpdate == InitUpdate /\ [][NextUpdate]_vars

\* a writer inserts batches while another connection reads
NextConcurrent ==
    \/ \E entries \in {l \in BatchLists : Len(l) = 2},
          batch_size \in {n \in BatchSizes : n <= 2} :
          InsertEntriesBatch(entries, batch_size)
    \/ \E file_path \in Files : UpdateIndex(file_path)
    \/ BatchWrite
    \/ BatchFail
    \/ BatchCommit
    \/ StatsCountEntries
    \/ StatsCountFts
    \/ ReaderSearchFts("a")

\* a store with a key in each file
InitConcurrent ==
    \E st \in {x \in InitStores : Cardinality(x.files) = 2} : InitOver(st, {})

SpecConcurrent == InitConcurrent /\ [][NextConcurrent]_vars

\* the translations of one user query
NextQuery ==
    \/ \E query \in {input_query} \cup FollowUps : BuildQuery(query)
    \/ ParseQuery
    \/ PrepareFtsQuery

\* the user typed one of the queries
InitQuery ==
    \E st \in {x \in InitStores : x.files = {}}, query \in Queries :
        /\ Constructed(st, {})
        /\ rglob_order = <<"f1", "f2">>
        /\ input_query = query
        /\ pdfs = {}

SpecQuery == InitQuery /\ [][NextQuery]_vars

\* the calls of bibmgr.operations, each with dry_run true and false, made by a
\* caller who may have opened a dry-run session and removed an entry in it
NextWrappers ==
    \/ Outside /\ enable_dry_run
    \/ Outside /\ dry_run /\ \E key \in Keys : RemoveEntry(key)
    \/ \E entry_type \in {"article", "nonsense"}, key \in {"", "k2"},
          dry \in BOOLEAN : operations_add_entry(entry_type, key, dry)
    \/ \E exists \in BOOLEAN, dry \in BOOLEAN :
          operations_add_from_file(exists, dry)
    \/ \E key \in Keys, remove_pdf \in BOOLEAN, force \in BOOLEAN,
          dry \in BOOLEAN : operations_remove_entry(key, remove_pdf, force, dry)
    \/ \E dry \in BOOLEAN : operations_remove_orphaned_entries(dry)
    \/ \E dry \in BOOLEAN : operations_remove_by_type("article", dry)
    \/ \E key \in Keys, updates \in {<<>>, <<[field |-> "title", value |-> "b"]>>},
          interactive \in BOOLEAN, dry \in BOOLEAN :
          operations_update_entry(key, updates, interactive, dry)
    \/ \E old_value \in Values, dry \in BOOLEAN :
          operations_update_field_batch("title", old_value, "b", dry)
    \/ \E key \in Keys, dry \in BOOLEAN : operations_move_pdf(key, "p2", dry)
    \/ LookupByKey
    \/ LookupAll
    \/ EarlyReturn
    \/ Proceed
    \/ Apply
    \/ Return
    \/ WriteTmp
    \/ WriteTmpFail
    \/ Replace
    \/ ReplaceFail

\* a store whose article k1 names the PDF p1, alone or beside the book k2
PdfBlock(k, v, path) ==
    [ID |-> k, ENTRYTYPE |-> TypeOf(k),
     fields |-> [title |-> v, file |-> FileField(path)]]

WrapperStores ==
    { [dirs |-> {"by-type"}, files |-> {"f1"},
       disk |-> [f \in Files |-> IF f = "f1" THEN <<PdfBlock("k1", "a", "p1")>>
                                              ELSE <<>>]],
      [dirs |-> {"by-type", "extra"}, files |-> {"f1", "f2"},
       disk |-> [f \in Files |-> IF f = "f1" THEN <<PdfBlock("k1", "a", "p1")>>
                                              ELSE <<Block("k2", "a")>>]] }

\* the PDF p1 exists or not; the target p2 of a move may exist already
InitWrappers ==
    \E st \in WrapperStores, bad \in {{}, {"f1"}} :
        /\ Constructed(st, bad)
        /\ rglob_order = <<"f1", "f2">>
        /\ input_query = <<>>
        /\ pdfs \in {{}, {"p1"}, {"p1", "p2"}}

SpecWrappers == InitWrappers /\ [][NextWrappers]_vars

\* the calls on the Index Store
NextIndex ==
    \/ \E entry \in IndexRecords : InsertEntry(entry)
    \/ ClearAll
    \/ RebuildFtsFromEntries
    \/ \E stmt \in Statements : ExecuteSql(stmt)
    \/ \E query \in BackendQueries, limit \in Limits, offset \in Offsets :
          SearchFts(query, limit, offset)
    \/ \E query \in UserQueries, limit \in Limits, offset \in Offsets :
          SearchEngineSearch(query, limit, offset)
    \/ \E entries \in BatchLists, batch_size \in BatchSizes :
          InsertEntriesBatch(entries, batch_size)
    \/ BatchWrite
    \/ BatchFail
    \/ BatchCommit
    \/ \E clear_existing \in BOOLEAN, show_progress \in BOOLEAN :
          BuildIndex(clear_existing, show_progress)

\* every call on an Index Store that starts empty, with a Repository over a
\* store that build_index reads
SpecIndex == InitIndex /\ [][NextIndex]_vars

\* ================================================================== claims
NoTwoWithSameKey(entries) ==
    \A i, j \in 1..Len(entries) : entries[i].key = entries[j].key => i = j

\* the records of every file that can be read, as load_file builds them
ReadableRecords ==
    UNION {Range(load_file(f)) : f \in files \ unreadable}

\* C1: after any sequence of add/remove/update/move calls, failed ones
\* included, neither load() nor load(forceReload=true) returns two records
\* with the same key.
C1_UniqueKeys ==
    call.pc = "idle" =>
        /\ NoTwoWithSameKey(LoadView.entries)
        /\ NoTwoWithSameKey(ReloadView.entries)

\* C2: add(record) raises the duplicate-key error whenever record.key is
\* written in any file under the managed root, cached or not, and then no
\* file is created or changed.
C2_DuplicateRejected ==
    [][(call.pc = "idle" /\ ops' = ops + 1 /\ last'.op = "add"
          /\ last'.key \in DiskKeys)
       => (last'.result = "ValueError" /\ files' = files /\ disk' = disk
             /\ leftover' = leftover)]_vars

\* C3: when disable() ends a dry-run session, the directories, the files and
\* their contents, and the result of load(), are what they were immediately
\* before enable().
C3_DryRunLeavesNoTrace ==
    [][(dry_run /\ ~dry_run')
       => (dirs' = snap.dirs /\ files' = snap.files /\ disk' = snap.disk
             /\ leftover' = snap.leftover /\ LoadView' = snap.load)]_vars

\* C4: while the Change Tracker is ACTIVE, get(k) for every key and load()
\* return the records (key, type, fields, originFile) they returned
\* immediately before enable().
C4_ActiveReadsPreChangeState ==
    (dry_run /\ call.pc = "idle") =>
        /\ LoadView = snap.load
        /\ \A k \in Keys : GetView(k) = snap.get[k]

\* C5: during a save_entries write the target file holds its previous content
\* until it holds the complete serialisation of the new list; when the write
\* fails the error has reached the caller and the target file and its cache
\* entry are as they were.
C5_AtomicPersist ==
    /\ save.status \in {"running", "failed"} => FileView(save.file) = save.before
    /\ save.status = "done" =>
           FileView(save.file) = [exists |-> TRUE,
                                  content |-> Serialise(save.entries)]
    /\ save.status = "failed" =>
           /\ call.pc = "idle"
           /\ last.result = "write_error"
           /\ CacheView(save.file) = save.cache_before

\* C5 witness: a write of two records over an existing file has failed after
\* one of them reached the temporary file.
C5_Witness ==
    /\ save.status = "failed"
    /\ save.before.exists
    /\ Len(save.entries) = 2
    /\ \E i \in 1..Len(leftover) : Len(leftover[i].data) = 1

\* C6: in every state during or after move(key, newFile) on an existing key,
\* the record with that key is written in at least one file on disk.
C6_MoveNeverLosesRecord ==
    /\ (call.op = "move" /\ call.pc # "idle") => call.key \in DiskKeys
    /\ (call.pc = "idle" /\ last.op = "move" /\ last.result # "none")
           => last.key \in DiskKeys

\* C7: outside dry-run, get(k) returns exactly the record most recently
\* written for k by a successful add, update or move, or the record that was
\* on disk initially, and not-found when k was never present or was removed.
C7_GetReturnsLastWritten ==
    (call.pc = "idle" /\ ~history.dry_used) =>
        \A k \in Keys : GetView(k) = [found |-> history.written[k],
                                      raised |-> FALSE]

\* C8: load() without forceReload returns the same records as
\* load(forceReload=true) would return at that moment.
C8_LoadIsFullStore ==
    call.pc = "idle" =>
        /\ LoadView.raised = ReloadView.raised
        /\ Range(LoadView.entries) = Range(ReloadView.entries)

\* C9: get, remove, update and move called with a key that no record in the
\* store has return None without raising and leave the files, the result of
\* load() and the ChangeSet unchanged.
C9_AbsentKeyIsNoOp ==
    [][(call.pc = "idle" /\ ops' = ops + 1
          /\ last'.op \in {"get", "remove", "update", "move"}
          /\ last'.key \notin DiskKeys
          /\ last'.key \notin KeysOf(Flatten(entries_cache)))
       => (last'.result = "none" /\ last'.ret = <<>>
             /\ dirs' = dirs /\ files' = files /\ disk' = disk
             /\ leftover' = leftover
             /\ LoadView' = LoadView /\ changeset' = changeset)]_vars

\* C10: when one file cannot be read during load(forceReload=true), no
\* exception reaches the caller, load returns and caches the records of every
\* other file, and a later load() returns that same set.
C10_LoadSkipsBadFile ==
    (call.pc = "idle" /\ last.op = "reload") =>
        /\ last.result = "ok"
        /\ Range(last.ret) = ReadableRecords
        /\ LoadView = [entries |-> last.ret, raised |-> FALSE]

\* ------------------------------------------------------- Index Store claims
\* C11: when build_index has returned, whatever clear_existing was, whatever
\* the index held and whatever list the Repository supplied,
\* check_fts_consistency() reports as many projection rows as primary rows
\* (stated for the builds that start to insert into an index that has as
\* many projection rows as primary rows)
C11_BuildLeavesParity ==
    (ilast.op = "build" /\ ilast.result = "ok"
        /\ check_fts_consistency(ilast.from))
        => check_fts_consistency(index)

\* C12: after any sequence of insert_entry, insert_entries_batch and
\* clear_all calls from an empty index, every indexed key has exactly one
\* primary row and exactly one projection row, and the projection row holds
\* the searchable fields of the record inserted for the key last
C12_OneRowPairPerKey ==
    (icall.pc = "idle" /\ ilast.mode = "plain") =>
        \A i \in 1..Len(ilast.inserted) :
            LET r == ilast.inserted[i]
            IN /\ Cardinality({j \in 1..Len(index.tbl) :
                                  index.tbl[j].key = r.key}) = 1
               /\ Cardinality({j \in 1..Len(index.fts) :
                                  index.fts[j].key = r.key}) = 1
               /\ \A j \in 1..Len(index.fts) :
                      index.fts[j].key = r.key =>
                          index.fts[j].title = IF r.fields["title"] = None
                                               THEN ""
                                               ELSE r.fields["title"]

\* C13 as stated: when insert_entries_batch fails while writing batch k > 1,
\* the rows of batches 1..k-1 of that call are in the index afterwards
C13_EarlierBatchesKept ==
    (ilast.op = "batch" /\ ilast.result = "error" /\ ilast.failed_batch > 1)
        => \A i \in 1..Min({Len(ilast.entries),
                            (ilast.failed_batch - 1) * ilast.batch_size}) :
              \E j \in 1..Len(index.tbl) :
                  index.tbl[j].key = ilast.entries[i].key

\* C13 amended: when insert_entries_batch fails while writing batch k > 1,
\* the index holds exactly the rows it held before the call: batches 1..k-1
\* are rolled back with the failing batch
C13_FailedBatchRolledBack ==
    (ilast.op = "batch" /\ ilast.result = "error" /\ ilast.failed_batch > 1)
        => index = ilast.from

C13_Witness ==
    /\ ilast.op = "batch"
    /\ ilast.result = "error"
    /\ ilast.failed_batch > 1
    /\ index.tbl # <<>>

\* C14: from any index state, rebuild_fts_from_entries leaves the primary
\* rows as they were and exactly one projection row per primary row, with
\* the same key and the row's searchable fields (an absent field as the
\* empty string), and no other projection row; check_fts_consistency() is
\* then true
C14_RebuildRepairs ==
    ilast.op = "rebuild" =>
        /\ index.tbl = ilast.from.tbl
        /\ check_fts_consistency(index)
        /\ \A k \in Keys :
              Cardinality({j \in 1..Len(index.fts) : index.fts[j].key = k})
                = Cardinality({i \in 1..Len(index.tbl) : index.tbl[i].key = k})
        /\ \A j \in 1..Len(index.fts) :
              \E i \in 1..Len(index.tbl) :
                  /\ index.tbl[i].key = index.fts[j].key
                  /\ index.fts[j].title =
                        IF "title" \in DOMAIN index.tbl[i].data
                              /\ index.tbl[i].data["title"] # None
                        THEN index.tbl[i].data["title"]
                        ELSE ""

C14_Witness ==
    /\ ilast.op = "rebuild"
    /\ ~check_fts_consistency(ilast.from)
    /\ \E i \in 1..Len(index.tbl) :
          "title" \in DOMAIN index.tbl[i].data /\ index.tbl[i].data["title"] = None

\* C15: for a non-empty query the full-text backend rejects, search_fts and
\* SearchEngine.search return an empty list, raise nothing and leave the
\* rows of the index as they were
C15_RejectedQueryIsEmpty ==
    (ilast.op \in {"search_fts", "search"} /\ fts5_rejects(ilast.query)) =>
        /\ ilast.result = "ok"
        /\ ilast.ret = <<>>
        /\ index = ilast.from

C15_Witness ==
    /\ ilast.op = "search"
    /\ fts5_rejects(ilast.query)
    /\ ~IsBlank(ilast.query)
    /\ index.tbl # <<>>

\* C16: for an empty or blank query, search_fts(q, limit, offset) returns the
\* rows at positions offset .. offset+limit-1 of the indexed records taken
\* from the most to the least recently inserted, and the pages at offsets
\* 0, limit, 2*limit, ... hold every indexed key exactly once
C16_BlankQueryPages ==
    LET recent == Reverse(ilast.inserted)
        Page(limit, n) == search_fts(index, "", limit, (n - 1) * limit).results
    IN icall.pc = "idle" =>
        /\ (ilast.op = "search_fts" /\ IsBlank(ilast.query)) =>
              /\ Len(ilast.ret) =
                    Max({0, Min({ilast.limit, Len(recent) - ilast.offset})})
              /\ \A i \in 1..Len(ilast.ret) :
                    ilast.ret[i].entry = recent[ilast.offset + i]
        /\ \A limit \in Limits :
              Concat([n \in 1..(Len(recent) + 1) |->
                        [i \in 1..Len(Page(limit, n)) |->
                            Page(limit, n)[i].entry.key]])
                = [i \in 1..Len(recent) |-> recent[i].key]

C16_Witness ==
    /\ ilast.op = "search_fts"
    /\ IsBlank(ilast.query)
    /\ ilast.offset = 1
    /\ ilast.limit = 1
    /\ Len(ilast.ret) = 1
    /\ Len(index.fts) > Len(index.tbl)

\* C17: every result search_fts returns for an empty or blank query carries
\* the placeholder score 50
C17_BlankQueryScore50 ==
    (ilast.op = "search_fts" /\ IsBlank(ilast.query)) =>
        \A i \in 1..Len(ilast.ret) : ilast.ret[i].score = 50

\* C18: every score search_fts returns lies in 0..100, and of two results of
\* a non-empty query the one with the more negative bm25 value has a score
\* at least as high and stands no later in the list
C18_BetterMatchScoresHigher ==
    ilast.op \in {"search_fts", "search"} =>
        /\ \A i \in 1..Len(ilast.ret) : ilast.ret[i].score \in 0..100
        /\ ~IsBlank(ilast.query) =>
              \A i, j \in 1..Len(ilast.ret) :
                  ilast.ret[i].rank < ilast.ret[j].rank =>
                      /\ ilast.ret[i].score >= ilast.ret[j].score
                      /\ i <= j

\* C19: for every list (repeated keys allowed) and every batch size,
\* insert_entries_batch leaves the rows that insert_entry, called for each
\* record in list order, leaves; so does build_index, with and without
\* progress reporting
C19_BatchIsOneByOne ==
    (ilast.op \in {"batch", "build"} /\ ilast.result = "ok") =>
        index = InsertOneByOne(ilast.from, ilast.entries)

C19_Witness ==
    /\ ilast.op = "batch"
    /\ ilast.result = "ok"
    /\ Len(ilast.entries) = 3
    /\ ilast.batch_size = 2
    /\ Len(index.tbl) = 2
    /\ ilast.from # EmptyIndex

\* ------------------------------------------------------ update_entry claim
\* C20: update_entry on a key the store holds returns a new record with the
\* key, type and source_file of the record get(key) returned and its fields
\* with each non-None update set and each None update removed; the record
\* get(key) returned is not changed by it; and the write puts the new record
\* where the old one stood in its file and leaves every other record of the
\* store as it was
C20_UpdateClonesAndReplaces ==
    [][/\ (call.pc = "idle" /\ ops' = ops + 1 /\ last'.op = "update"
             /\ last'.key \in DiskKeys)
          => LET old == GetView(last'.key).found
                 ret == IF dry_run THEN last'.ret ELSE call'.ret
             IN /\ last'.result \in {"ok", "running"}
                /\ old # <<>>
                /\ Len(ret) = 1
                /\ Len(last'.updates) = 1
                /\ ret[1].key = old[1].key
                /\ ret[1].entry_type = old[1].entry_type
                /\ ret[1].source_file = old[1].source_file
                /\ \A x \in FieldNames :
                      IF x = last'.updates[1].field
                      THEN IF last'.updates[1].value = None
                           THEN x \notin DOMAIN ret[1].fields
                           ELSE /\ x \in DOMAIN ret[1].fields
                                /\ ret[1].fields[x] = last'.updates[1].value
                      ELSE /\ (x \in DOMAIN ret[1].fields)
                                = (x \in DOMAIN old[1].fields)
                           /\ x \in DOMAIN old[1].fields
                                => ret[1].fields[x] = old[1].fields[x]
                /\ \A k \in Keys :
                      k = last'.key => GetView(k)' = GetView(k)
       /\ (call.pc = "replace" /\ call.op = "update" /\ call'.pc = "idle"
             /\ last'.result = "ok")
          => /\ last'.ret = call.ret
             /\ files' = files
             /\ \A f \in Files \ {call.file} : disk'[f] = disk[f]
             /\ Len(disk'[call.file]) = Len(disk[call.file])
             /\ \E i \in 1..Len(disk[call.file]) :
                   disk[call.file][i].ID = call.key
             /\ \A i \in 1..Len(disk[call.file]) :
                   disk'[call.file][i] =
                       IF disk[call.file][i].ID = call.key
                       THEN Serialise(call.ret)[1]
                       ELSE disk[call.file][i]
      ]_vars

\* -------------------------------------------------------- dry-run move claim
\* C25: while dry-run is on, move_entry of a key the store holds to a file
\* other than the one it is in returns the record without raising, and the
\* ChangeSet then holds the move (the record is among its added entries)
C25_DryRunMoveIsDiverted ==
    [][(call.pc = "idle" /\ dry_run /\ ops' = ops + 1 /\ last'.op = "move"
          /\ GetView(last'.key).found # <<>>
          /\ GetView(last'.key).found[1].source_file # last'.file)
       => /\ last'.result = "ok"
          /\ Len(last'.ret) = 1
          /\ last'.ret[1].key = last'.key
          /\ changeset' # <<>>
          /\ \E i \in 1..Len(changeset'[1].added) :
                changeset'[1].added[i].key = last'.key]_vars

\* -------------------------------------------------- dry-run persist claim
\* the entries of list s from position n + 1 on
Suffix(s, n) == SubSeq(s, n + 1, Len(s))

\* the list of keys ks names each key of K once and no other key
OnePerKey(ks, K) == Len(ks) = Cardinality(K) /\ Range(ks) = K

C28_ClearAllEmpties ==
    (icall.pc = "idle" /\ ilast.op = "clear_all") => index = EmptyIndex

\* --------------------------------------------------------- update_index claim
\* the primary rows of file f, and the records the Repository holds for f
RowsOf(f) ==
    {[key |-> index.tbl[i].key, fields |-> index.tbl[i].data] :
        i \in {j \in 1..Len(index.tbl) : index.tbl[j].source_file = f}}

RecordsOf(f) ==
    LET entries == get_entries_by_file(entries_cache, f).entries
    IN {[key |-> entries[i].key, fields |-> entries[i].fields] :
           i \in 1..Len(entries)}

\* C27: when update_index([F]) returns without an error, the primary rows whose
\* source_file is F are the records of F, key by key and field by field; a
\* row of a record that left F is gone
C27_UpdateIndexSyncsFile ==
    [][(ilast'.op = "update_index" /\ ilast'.result = "ok" /\ icall'.pc = "idle"
          /\ (iops' = iops + 1 \/ icall.pc = "batch"))
       => (RowsOf(ilast.file) = RecordsOf(ilast.file))']_vars

\* --------------------------------------------------- concurrent reader claim
\* what a get_statistics or search_fts call reads from the database ix
Observes(ix) ==
    IF rlast.op = "stats"
    THEN rlast.total_entries = Len(ix.tbl) /\ rlast.fts_entries = Len(ix.fts)
    ELSE rlast.results = search_fts(ix, rlast.query, 2, 0).results

\* C24: a statistics or search call on its own connection that ran while one
\* insert_entries_batch call was in progress saw the database as it was before
\* that call or as the call left it, and saw as many primary rows as
\* projection rows if that was so before the writer started
C24_ReaderSeesNoneOrAll ==
    (rlast.op \in {"stats", "search"} /\ rlast.one_batch)
        => /\ Observes(rlast.start) \/ Observes(rlast.end)
           /\ (rlast.op = "stats" /\ Len(rlast.start.tbl) = Len(rlast.start.fts))
                  => rlast.total_entries = rlast.fts_entries

\* ------------------------------------------------- Query Translator claims
\* the position of the colon of the qualifier in a word of the query: the
\* first colon that follows a \w character and has a character after it
QualifierAt(word) ==
    LET at == {c \in 2..(Len(word) - 1) : word[c] = ":" /\ IsWord(word[c - 1])}
    IN IF at = {} THEN 0 ELSE Min(at)

\* the field of the qualifier of a word: the \w characters before its colon
FieldOf(word) ==
    LET c == QualifierAt(word)
    IN Lowered(SubSeq(word, WordStart(word, c - 1), c - 1))

\* a word with its qualifier rewritten or stripped
Rewritten(word) ==
    LET c == QualifierAt(word)
        before == SubSeq(word, 1, WordStart(word, c - 1) - 1)
        value == SubSeq(word, c + 1, Len(word))
    IN IF c = 0 THEN word
       ELSE IF FieldOf(word) \in FTS_COLUMNS
            THEN before \o <<"{">> \o FieldOf(word) \o <<"}", ":">> \o value
            ELSE before \o value

\* " ".join(words)
RECURSIVE join(_)
join(words) ==
    IF words = <<>> THEN <<>>
    ELSE IF Len(words) = 1 THEN words[1]
    ELSE words[1] \o <<" ">> \o join(Tail(words))

\* the words of the normalised query, and those with a stripped qualifier
WordsOf(query) == split(normalize_query(query))

Stripped(query) ==
    LET IsStripped(word) ==
            QualifierAt(word) # 0 /\ FieldOf(word) \notin FTS_COLUMNS
    IN SelectSeq(WordsOf(query), IsStripped)

HasQualifier(query) ==
    LET words == WordsOf(query)
    IN \E i \in 1..Len(words) : QualifierAt(words[i]) # 0

\* no qualifier, no operator and no wildcard
IsPlain(query) ==
    LET n == normalize_query(query)
    IN ~Contains(n, <<":">>) /\ ~is_boolean_query(n) /\ ~has_wildcards(n)

\* C21: a translation of a query with a qualifier rewrites each qualifier of
\* a field of FTS_COLUMNS (in any case) to {field}:value, replaces any other
\* qualifier by its value and returns one "Unknown field" warning per stripped
\* qualifier and no other warning; a plain query has no warnings; the
\* warnings of an earlier call are not in the result
C21_QualifiersRewritten ==
    LET words == WordsOf(qlast.query)
        stripped == Stripped(qlast.query)
    IN qlast.op \in {"build_query", "parse_query"}
        => /\ HasQualifier(qlast.query)
                => /\ qlast.text =
                         join([i \in 1..Len(words) |-> Rewritten(words[i])])
                   /\ qlast.warnings =
                         [i \in 1..Len(stripped) |->
                             UnknownField(FieldOf(stripped[i]))]
           /\ IsPlain(qlast.query) => qlast.warnings = <<>>

\* C21 witness: the QueryBuilder held a warning of an earlier call when it
\* translated a query of two qualifiers, one rewritten and one stripped
C21_Witness ==
    /\ qlast.op = "build_query"
    /\ qlast.before # <<>>
    /\ Len(WordsOf(qlast.query)) = 2
    /\ Len(qlast.warnings) = 1
    /\ Contains(qlast.text, <<"{", "k", "e", "y", "}", ":", "a">>)

\* C22: the string SearchEngine.search passes to search_fts is the query
\* parse_query gives for the user's query
C22_SearchUsesTranslator ==
    qlast.op = "search" => qlast.text = parse_query(qlast.query).text

\* C29: a query without a colon whose normalised words include none of AND,
\* OR, NOT and NEAR, which is not a phrase and holds * or ?, comes back with
\* every ? written as * (the wildcard path)
C29_BooleanOnlyForWholeWords ==
    LET n == normalize_query(qlast.query)
    IN (/\ qlast.op \in {"build_query", "parse_query"}
        /\ ~Contains(n, <<":">>)
        /\ Range(split(n)) \cap FTS_OPERATORS = {}
        /\ ~is_phrase_query(n)
        /\ has_wildcards(n))
          => qlast.text = [i \in 1..Len(n) |-> IF n[i] = "?" THEN "*" ELSE n[i]]


\* ------------------------------------------------ operation wrapper claims
\* a call of a function of bibmgr.operations ends with this step
Exited == wrapper'.pc = "closed" /\ wrapper' # wrapper

\* C23 as stated: a wrapper called with dry_run=True calls enable exactly once
\* and disable exactly once, and when it exits - by return, early return,
\* cancellation or exception - dry-run is off, there is no ChangeSet and the
\* files are what they were when it was called
C23_DryRunWrapperEnablesOnce ==
    [][(Exited /\ wrapper'.dry_run)
       => /\ wrapper'.enables = 1
          /\ wrapper'.disables = 1
          /\ ~dry_run'
          /\ changeset' = <<>>
          /\ files' = wrapper'.before.files
          /\ disk' = wrapper'.before.disk]_vars

\* C23 amended: a wrapper called with dry_run=True calls disable as often as
\* enable; add_from_file on a file that does not exist calls neither, every
\* other call calls each exactly once, and then at exit - by return, early
\* return, cancellation or exception - dry-run is off, there is no ChangeSet
\* and the files are what they were when the wrapper was called
C23_DryRunWrapperCleansUp ==
    [][(Exited /\ wrapper'.dry_run)
       => /\ wrapper'.disables = wrapper'.enables
          /\ wrapper'.enables = IF wrapper'.exit = "missing_file" THEN 0 ELSE 1
          /\ wrapper'.exit = "missing_file" => wrapper'.name = "add_from_file"
          /\ wrapper'.enables = 1
             => /\ ~dry_run'
                /\ changeset' = <<>>
                /\ files' = wrapper'.before.files
                /\ disk' = wrapper'.before.disk]_vars

\* C23 witness: a wrapper called with dry_run=True has made its repository
\* mutation and returned, after one enable and one disable
C23_Witness ==
    /\ wrapper.pc = "closed"
    /\ wrapper.dry_run
    /\ wrapper.exit = "return"
    /\ wrapper.todo # <<>>
    /\ wrapper.enables = 1
    /\ wrapper.disables = 1
    /\ ops = wrapper.mark + Len(wrapper.todo)
    /\ ~dry_run

\* C30: a wrapper called while dry-run is on, with either value of its dry_run
\* argument, returns with dry-run still on and with a ChangeSet that holds
\* every change recorded before the call
C30_WrapperKeepsCallerSession ==
    [][(Exited /\ wrapper'.before.dry_run)
       => /\ dry_run'
          /\ changeset' # <<>>
          /\ \A part \in {"added", "removed", "updated"} :
                Range(wrapper'.before.changeset[1][part])
                   \subseteq Range(changeset'[1][part])]_vars

====
